---- MODULE Spec2Model ----
(***************************************************************************)
(* Crop suitability scoring and climate summarising (src/crop_recommender.  *)
(* py), record processing (src/data_processor.py), weather pattern         *)
(* analysis (src/ai_analyzer.py), the simulation of soil moisture sensors  *)
(* (src/soil_moisture_service.py) and the saved locations (src/database.   *)
(* py) of the farm advisory dashboard.                                     *)
(*                                                                         *)
(* Numbers the program holds as floats are modelled as exact rationals     *)
(* <<numerator, denominator>> in lowest terms with a positive denominator. *)
(* Temperatures are whole degrees C and rainfall whole millimetres.        *)
(***************************************************************************)
EXTENDS Integers, Sequences, FiniteSets

(***************************************************************************)
(* Exact rational arithmetic                                               *)
(***************************************************************************)
Abs(x) == IF x < 0 THEN 0 - x ELSE x

RECURSIVE GCD(_, _)
GCD(a, b) == IF b = 0 THEN a ELSE GCD(b, a % b)

Rat(n, d) ==
    LET g == GCD(Abs(n), Abs(d))
        s == IF d < 0 THEN 0 - 1 ELSE 1
    IN  <<(s * n) \div g, (s * d) \div g>>

RatInt(n) == <<n, 1>>
RatZero == <<0, 1>>
RatOne == <<1, 1>>

RatAdd(p, q) ==
    LET g == GCD(p[2], q[2])
    IN  Rat(p[1] * (q[2] \div g) + q[1] * (p[2] \div g), (p[2] \div g) * q[2])

RatNeg(p) == <<0 - p[1], p[2]>>
RatSub(p, q) == RatAdd(p, RatNeg(q))

RatMul(p, q) ==
    LET g1 == GCD(Abs(p[1]), q[2])
        g2 == GCD(Abs(q[1]), p[2])
    IN  Rat((p[1] \div g1) * (q[1] \div g2), (p[2] \div g2) * (q[2] \div g1))

RatAbs(p) == <<Abs(p[1]), p[2]>>

RatLess(p, q) ==
    LET g == GCD(p[2], q[2])
    IN  p[1] * (q[2] \div g) < q[1] * (p[2] \div g)

RatLeq(p, q) == ~RatLess(q, p)

\* Python's min(a, b) and max(a, b): the first argument unless the second is
\* strictly smaller (larger).
RatMin(p, q) == IF RatLess(q, p) THEN q ELSE p
RatMax(p, q) == IF RatLess(p, q) THEN q ELSE p

(***************************************************************************)
(* Text: a string is the sequence of its characters, so that Python's      *)
(* substring test  a in b  is computed and not assumed.                    *)
(***************************************************************************)
StrSpring == <<"S", "p", "r", "i", "n", "g">>
StrSummer == <<"S", "u", "m", "m", "e", "r">>
StrFall == <<"F", "a", "l", "l">>
StrWinter == <<"W", "i", "n", "t", "e", "r">>
StrPerennial == <<"P", "e", "r", "e", "n", "n", "i", "a", "l">>
StrSlash == <<"/">>

StrIn(a, b) ==
    \E i \in 1..(Len(b) - Len(a) + 1) : SubSeq(b, i, i + Len(a) - 1) = a

(***************************************************************************)
(* The crop catalog, CropRecommender.__init__                              *)
(***************************************************************************)
Crop(mn, mx, opt, rmin, rmax, dt, ft, gs) ==
    [min_temp |-> mn, max_temp |-> mx, optimal_temp |-> opt,
     min_rainfall |-> rmin, max_rainfall |-> rmax,
     drought_tolerant |-> dt, frost_tolerant |-> ft, growing_season |-> gs]

\* self.available_crops: the catalog's keys in insertion order
available_crops ==
    <<"Corn", "Wheat", "Soybeans", "Rice", "Cotton", "Potatoes", "Tomatoes",
      "Lettuce", "Carrots", "Barley", "Oats", "Sunflower", "Alfalfa",
      "Sweet Corn", "Peas">>

CropNames == {available_crops[i] : i \in 1..Len(available_crops)}

crop_data ==
    [c \in CropNames |->
      CASE c = "Corn" -> Crop(10, 35, 25, 500, 1200, FALSE, FALSE, StrSummer)
        [] c = "Wheat" -> Crop(3, 30, 20, 350, 1000, TRUE, TRUE,
                               StrWinter \o StrSlash \o StrSpring)
        [] c = "Soybeans" -> Crop(10, 38, 27, 450, 1200, FALSE, FALSE, StrSummer)
        [] c = "Rice" -> Crop(16, 40, 30, 900, 2500, FALSE, FALSE, StrSummer)
        [] c = "Cotton" -> Crop(15, 40, 30, 500, 1500, TRUE, FALSE, StrSummer)
        [] c = "Potatoes" -> Crop(7, 30, 20, 500, 1000, FALSE, FALSE,
                                  StrSpring \o StrSlash \o StrSummer)
        [] c = "Tomatoes" -> Crop(10, 35, 25, 400, 1000, FALSE, FALSE, StrSummer)
        [] c = "Lettuce" -> Crop(5, 25, 18, 300, 800, FALSE, TRUE,
                                 StrSpring \o StrSlash \o StrFall)
        [] c = "Carrots" -> Crop(7, 30, 18, 300, 900, FALSE, TRUE,
                                 StrSpring \o StrSlash \o StrFall)
        [] c = "Barley" -> Crop(4, 30, 18, 300, 1000, TRUE, TRUE,
                                StrSpring \o StrSlash \o StrWinter)
        [] c = "Oats" -> Crop(4, 32, 20, 350, 1000, TRUE, TRUE, StrSpring)
        [] c = "Sunflower" -> Crop(8, 35, 25, 300, 1000, TRUE, FALSE, StrSummer)
        [] c = "Alfalfa" -> Crop(5, 35, 25, 400, 1200, TRUE, TRUE, StrPerennial)
        [] c = "Sweet Corn" -> Crop(10, 35, 25, 500, 1200, FALSE, FALSE, StrSummer)
        [] c = "Peas" -> Crop(5, 24, 18, 350, 800, FALSE, TRUE,
                              StrSpring \o StrSlash \o StrFall)]

(***************************************************************************)
(* CropRecommender._calculate_temperature_score                            *)
(***************************************************************************)
\* _calculate_temperature_score without the lower clamp of its last line
TemperatureScoreNoFloor(avg_temp, min_temp, max_temp, crop_min, crop_optimal, crop_max) ==
    IF max_temp < crop_min \/ min_temp > crop_max
    THEN Rat(1, 10)
    ELSE
      LET optimal_score ==
            RatSub(RatOne,
                   RatMin(RatMul(RatAbs(RatSub(avg_temp, RatInt(crop_optimal))),
                                 Rat(1, 15)),
                          RatOne))
          cold_penalty ==
            IF min_temp < crop_min
            THEN Rat(3 * (crop_min - min_temp), 10 * crop_min)
            ELSE RatZero
          heat_penalty ==
            IF max_temp > crop_max
            THEN Rat(3 * (max_temp - crop_max), 10 * crop_max)
            ELSE RatZero
          range_penalty == RatAdd(cold_penalty, heat_penalty)
          score == RatMul(optimal_score, RatSub(RatOne, range_penalty))
      IN  RatMin(score, RatOne)

\* _calculate_temperature_score with the cold test reversed, so that a minimum
\* above the crop's minimum is penalised
TemperatureScoreColdReversed(avg_temp, min_temp, max_temp, crop_min, crop_optimal, crop_max) ==
    IF max_temp < crop_min \/ min_temp > crop_max
    THEN Rat(1, 10)
    ELSE
      LET optimal_score ==
            RatSub(RatOne,
                   RatMin(RatMul(RatAbs(RatSub(avg_temp, RatInt(crop_optimal))),
                                 Rat(1, 15)),
                          RatOne))
          cold_penalty ==
            IF min_temp > crop_min
            THEN Rat(3 * (min_temp - crop_min), 10 * crop_min)
            ELSE RatZero
          heat_penalty ==
            IF max_temp > crop_max
            THEN Rat(3 * (max_temp - crop_max), 10 * crop_max)
            ELSE RatZero
          range_penalty == RatAdd(cold_penalty, heat_penalty)
          score == RatMul(optimal_score, RatSub(RatOne, range_penalty))
      IN  RatMax(Rat(1, 10), RatMin(score, RatOne))

\* avg_temp is a rational, the other arguments are whole degrees.
CalculateTemperatureScore(avg_temp, min_temp, max_temp, crop_min, crop_optimal, crop_max) ==
    IF max_temp < crop_min \/ min_temp > crop_max
    THEN Rat(1, 10)
    ELSE
      LET optimal_score ==
            RatSub(RatOne,
                   RatMin(RatMul(RatAbs(RatSub(avg_temp, RatInt(crop_optimal))),
                                 Rat(1, 15)),
                          RatOne))
          cold_penalty ==
            IF min_temp < crop_min
            THEN Rat(3 * (crop_min - min_temp), 10 * crop_min)
            ELSE RatZero
          heat_penalty ==
            IF max_temp > crop_max
            THEN Rat(3 * (max_temp - crop_max), 10 * crop_max)
            ELSE RatZero
          range_penalty == RatAdd(cold_penalty, heat_penalty)
          score == RatMul(optimal_score, RatSub(RatOne, range_penalty))
      IN  RatMax(Rat(1, 10), RatMin(score, RatOne))

(***************************************************************************)
(* CropRecommender._calculate_rainfall_score                               *)
(***************************************************************************)
\* _calculate_rainfall_score with abs() left out of position_score
RainfallScoreNoAbs(annual_rainfall, crop_min_rain, crop_max_rain) ==
    IF 2 * annual_rainfall < crop_min_rain
    THEN Rat(3, 10)
    ELSE IF 2 * annual_rainfall > 3 * crop_max_rain
    THEN Rat(4, 10)
    ELSE IF crop_min_rain <= annual_rainfall /\ annual_rainfall <= crop_max_rain
    THEN
      LET range_size == crop_max_rain - crop_min_rain
          position ==
            IF range_size > 0
            THEN Rat(annual_rainfall - crop_min_rain, range_size)
            ELSE Rat(1, 2)
          position_score == RatSub(RatOne, RatSub(Rat(1, 2), position))
      IN  RatAdd(Rat(8, 10), RatMul(position_score, Rat(2, 10)))
    ELSE IF annual_rainfall < crop_min_rain
    THEN
      LET shortfall_ratio == Rat(annual_rainfall, crop_min_rain)
      IN  RatAdd(Rat(4, 10), RatMul(shortfall_ratio, Rat(4, 10)))
    ELSE
      LET excess_ratio == RatMin(Rat(crop_max_rain, annual_rainfall), RatOne)
      IN  RatAdd(Rat(4, 10), RatMul(excess_ratio, Rat(4, 10)))

\* _calculate_rainfall_score scoring the position itself, highest at the
\* top of the range
RainfallScorePeakAtMax(annual_rainfall, crop_min_rain, crop_max_rain) ==
    IF 2 * annual_rainfall < crop_min_rain
    THEN Rat(3, 10)
    ELSE IF 2 * annual_rainfall > 3 * crop_max_rain
    THEN Rat(4, 10)
    ELSE IF crop_min_rain <= annual_rainfall /\ annual_rainfall <= crop_max_rain
    THEN
      LET range_size == crop_max_rain - crop_min_rain
          position ==
            IF range_size > 0
            THEN Rat(annual_rainfall - crop_min_rain, range_size)
            ELSE Rat(1, 2)
          position_score == position
      IN  RatAdd(Rat(8, 10), RatMul(position_score, Rat(2, 10)))
    ELSE IF annual_rainfall < crop_min_rain
    THEN
      LET shortfall_ratio == Rat(annual_rainfall, crop_min_rain)
      IN  RatAdd(Rat(4, 10), RatMul(shortfall_ratio, Rat(4, 10)))
    ELSE
      LET excess_ratio == RatMin(Rat(crop_max_rain, annual_rainfall), RatOne)
      IN  RatAdd(Rat(4, 10), RatMul(excess_ratio, Rat(4, 10)))

\* _calculate_rainfall_score with  <=  in its first test
RainfallScoreInclusiveHalf(annual_rainfall, crop_min_rain, crop_max_rain) ==
    IF 2 * annual_rainfall <= crop_min_rain
    THEN Rat(3, 10)
    ELSE IF 2 * annual_rainfall > 3 * crop_max_rain
    THEN Rat(4, 10)
    ELSE IF crop_min_rain <= annual_rainfall /\ annual_rainfall <= crop_max_rain
    THEN
      LET range_size == crop_max_rain - crop_min_rain
          position ==
            IF range_size > 0
            THEN Rat(annual_rainfall - crop_min_rain, range_size)
            ELSE Rat(1, 2)
          position_score == RatSub(RatOne, RatAbs(RatSub(Rat(1, 2), position)))
      IN  RatAdd(Rat(8, 10), RatMul(position_score, Rat(2, 10)))
    ELSE IF annual_rainfall < crop_min_rain
    THEN
      LET shortfall_ratio == Rat(annual_rainfall, crop_min_rain)
      IN  RatAdd(Rat(4, 10), RatMul(shortfall_ratio, Rat(4, 10)))
    ELSE
      LET excess_ratio == RatMin(Rat(crop_max_rain, annual_rainfall), RatOne)
      IN  RatAdd(Rat(4, 10), RatMul(excess_ratio, Rat(4, 10)))

CalculateRainfallScore(annual_rainfall, crop_min_rain, crop_max_rain) ==
    IF 2 * annual_rainfall < crop_min_rain
    THEN Rat(3, 10)
    ELSE IF 2 * annual_rainfall > 3 * crop_max_rain
    THEN Rat(4, 10)
    ELSE IF crop_min_rain <= annual_rainfall /\ annual_rainfall <= crop_max_rain
    THEN
      LET range_size == crop_max_rain - crop_min_rain
          position ==
            IF range_size > 0
            THEN Rat(annual_rainfall - crop_min_rain, range_size)
            ELSE Rat(1, 2)
          position_score == RatSub(RatOne, RatAbs(RatSub(Rat(1, 2), position)))
      IN  RatAdd(Rat(8, 10), RatMul(position_score, Rat(2, 10)))
    ELSE IF annual_rainfall < crop_min_rain
    THEN
      LET shortfall_ratio == Rat(annual_rainfall, crop_min_rain)
      IN  RatAdd(Rat(4, 10), RatMul(shortfall_ratio, Rat(4, 10)))
    ELSE
      LET excess_ratio == RatMin(Rat(crop_max_rain, annual_rainfall), RatOne)
      IN  RatAdd(Rat(4, 10), RatMul(excess_ratio, Rat(4, 10)))

(***************************************************************************)
(* Tables.  A historical table (pandas DataFrame) is its set of column     *)
(* names and its rows, one record per day; the two columns that            *)
(* _extract_climate_data adds are kept beside the rows.  An empty table    *)
(* has no columns and no rows (DataProcessor.process_historical_data).     *)
(***************************************************************************)
VARIABLES
    historical_df,    \* the caller's historical table
    forecast_df,      \* the caller's forecast table
    lat,              \* latitude of the location
    current_month,    \* datetime.datetime.now().month
    calls,            \* entry-point calls made so far
    last_call,        \* the entry point that ran last
    climate_data,     \* indicators returned by the last _extract_climate_data
    current_season,   \* recommend_crops: local current_season
    crop_scores,      \* recommend_crops: local crop_scores (crop -> percentage)
    sub_scores,       \* recommend_crops: temp_score, rainfall_score per crop
    recommendations,  \* recommend_crops: returned list
    crop_name,        \* scoring functions: the crop whose profile is passed
    temp_score,       \* result of _calculate_temperature_score, <<>> before
    rainfall_score,   \* result of _calculate_rainfall_score, <<>> before
    raised,           \* whether the last call left an exception to its caller
    historical_data,  \* process_historical_data: the list of records given
    column,           \* _calculate_trend: the column name given
    trend_per_month,  \* _calculate_trend: returned value, <<>> before
    trends,           \* _analyze_trends: returned descriptions
    predictions,      \* _predict_upcoming_conditions: returned dictionary
    insights,         \* get_crop_insights: returned dictionary
    results,          \* analyze_patterns: returned dictionary
    seasonal,         \* get_seasonal_recommendations: returned dictionary
    anomalies,        \* _detect_anomalies: returned dictionary
    patterns,         \* _identify_patterns: returned dictionary
    simulation_running,      \* SoilMoistureService.simulation_running
    simulation_thread,       \* SoilMoistureService.simulation_thread, 0 for None
    data_queue,              \* SoilMoistureService.data_queue
    worker,                  \* position of each _simulation_worker thread
    caller,                  \* position of the thread that starts and stops
    consumer,                \* get_latest_readings: position and locals
    started,                 \* start_simulation: returned value, <<>> before
    latest_readings,         \* get_latest_readings: returned list
    enqueued,                \* every reading put on data_queue, in order
    delivered,               \* every reading returned so far, in order
    soil_moisture_sensors,   \* rows of the soil_moisture_sensors table
    soil_moisture_readings,  \* rows of the soil_moisture_readings table
    saved_locations,         \* rows of the saved_locations table
    location_data            \* save_location: returned dictionary

\* what the analyzer and the data processor return
analysis_vars ==
    <<historical_data, column, trend_per_month, trends, predictions, insights,
      results, seasonal>>

\* what the recommender and the entry points hold, but for last_call
recommender_vars ==
    <<historical_df, forecast_df, lat, current_month, calls, climate_data,
      current_season, crop_scores, sub_scores, recommendations, crop_name,
      temp_score, rainfall_score, raised>>

\* what the two fitted models of the analyzer lead to
pattern_vars == <<anomalies, patterns>>

\* the soil moisture service, its threads and what its calls return
service_vars ==
    <<simulation_running, simulation_thread, data_queue, worker, caller,
      consumer, started, latest_readings, enqueued, delivered>>

\* the tables of the database and what save_location returns
database_vars ==
    <<soil_moisture_sensors, soil_moisture_readings, saved_locations,
      location_data>>

vars ==
    <<historical_df, forecast_df, lat, current_month, calls, last_call,
      climate_data, current_season, crop_scores, sub_scores, recommendations,
      crop_name, temp_score, rainfall_score, raised, analysis_vars,
      pattern_vars, service_vars, database_vars>>

HistoricalColumns ==
    {"date", "temp_min", "temp_max", "temp_avg", "humidity", "clouds",
     "wind_speed", "rain_sum", "snow_sum", "humidity_avg"}

Day(avg, mn, mx, rain) ==
    [temp_avg |-> avg, temp_min |-> mn, temp_max |-> mx, rain_sum |-> rain]

EmptyTable == [columns |-> {}, rows |-> <<>>, dry_day |-> <<>>, dry_spell |-> <<>>]

Table(rows) ==
    IF rows = <<>> THEN EmptyTable
    ELSE [columns |-> HistoricalColumns, rows |-> rows,
          dry_day |-> <<>>, dry_spell |-> <<>>]

\* DataFrame.empty: no rows or no columns
IsEmpty(df) == df.rows = <<>> \/ df.columns = {}

Rep(n, x) == [i \in 1..n |-> x]

RECURSIVE SumSeq(_)
SumSeq(s) == IF s = <<>> THEN 0 ELSE Head(s) + SumSeq(Tail(s))

MinOf(S) == CHOOSE x \in S : \A y \in S : x <= y
MaxOf(S) == CHOOSE x \in S : \A y \in S : x >= y

Column(df, name) == [i \in 1..Len(df.rows) |-> df.rows[i][name]]
Values(s) == {s[i] : i \in 1..Len(s)}

(***************************************************************************)
(* Bounds of the model                                                     *)
(***************************************************************************)
MaxCalls == 2     \* entry-point calls in one behaviour
MaxPad == 17      \* rainy days before the dry spell of a summarised table
MaxDry == 13      \* days of the first dry run
MaxGap == 3       \* days of 1 mm rain between the two dry runs
MaxFrost == 7     \* days of the second dry run, which are frost days
MaxTail == 1      \* rainy days after the dry spell
MaxCold == 12     \* scored temperatures start at -MaxCold degrees
MaxWarm == 45     \* and end at MaxWarm degrees
MaxSpread == 4    \* extremes lie up to MaxSpread^2 degrees from the base
MaxRain == 3800   \* scored annual rainfall, mm
MaxWorkers == 2   \* simulation threads ever started in one behaviour

(***************************************************************************)
(* CropRecommender._extract_climate_data                                   *)
(***************************************************************************)
FrostDays == 5
MinRecords == 30
DryWindow == 15
DryDays == 13

\* a default bundle with another rainfall
DefaultClimateDry ==
    [avg_temp |-> RatInt(20), min_temp |-> 5, max_temp |-> 35,
     annual_rainfall |-> 0, drought_risk |-> FALSE, frost_risk |-> FALSE]

DefaultClimate ==
    [avg_temp |-> RatInt(20), min_temp |-> 5, max_temp |-> 35,
     annual_rainfall |-> 800, drought_risk |-> FALSE, frost_risk |-> FALSE]

\* dry_day with  <=  in place of  <
DryDayColumnInclusive(df) == [i \in 1..Len(df.rows) |-> df.rows[i].rain_sum <= 1]

\* historical_df['dry_day'] = historical_df['rain_sum'] < 1
DryDayColumn(df) == [i \in 1..Len(df.rows) |-> df.rows[i].rain_sum < 1]

\* rolling(window=15, min_periods=15).sum() >= 13: the trailing window ending at
\* row i; the sum is NaN for the first 14 rows and NaN >= 13 is False.
DrySpellColumn(dry_day) ==
    [i \in 1..Len(dry_day) |->
        /\ i >= DryWindow
        /\ Cardinality({j \in (i - DryWindow + 1)..i : dry_day[j]}) >= DryDays]

\* The drought check runs only on a table of more than 30 rows.
EnoughData(df) == Len(df.rows) > MinRecords

\* frost_risk with  >=  in place of  >
FrostRiskInclusive(df) ==
    Cardinality({i \in 1..Len(df.rows) : df.rows[i].temp_min < 0}) >= FrostDays

\* (historical_df['temp_min'] < 0).sum() > 5
FrostRisk(df) ==
    Cardinality({i \in 1..Len(df.rows) : df.rows[i].temp_min < 0}) > FrostDays

\* the dry-day flags written over rain_sum instead of into a new column
TableAfterExtractOverwrite(df) ==
    IF ~IsEmpty(df) /\ "rain_sum" \in df.columns /\ EnoughData(df)
    THEN [df EXCEPT !.columns = @ \cup {"dry_day", "dry_spell"},
                    !.rows = [i \in 1..Len(df.rows) |->
                                 [df.rows[i] EXCEPT !.rain_sum =
                                     IF DryDayColumn(df)[i] THEN 1 ELSE 0]],
                    !.dry_day = DryDayColumn(df),
                    !.dry_spell = DrySpellColumn(DryDayColumn(df))]
    ELSE df

\* The table as the call leaves it: the two columns are added in place.
TableAfterExtract(df) ==
    IF ~IsEmpty(df) /\ "rain_sum" \in df.columns /\ EnoughData(df)
    THEN [df EXCEPT !.columns = @ \cup {"dry_day", "dry_spell"},
                    !.dry_day = DryDayColumn(df),
                    !.dry_spell = DrySpellColumn(DryDayColumn(df))]
    ELSE df

ExtractClimateData(df) ==
    IF IsEmpty(df) THEN DefaultClimate
    ELSE
      LET n == Len(df.rows)
          after == TableAfterExtract(df)
      IN  [avg_temp |->
              IF "temp_avg" \in df.columns
              THEN Rat(SumSeq(Column(df, "temp_avg")), n)
              ELSE DefaultClimate.avg_temp,
           min_temp |->
              IF "temp_min" \in df.columns
              THEN MinOf(Values(Column(df, "temp_min")))
              ELSE DefaultClimate.min_temp,
           frost_risk |->
              IF "temp_min" \in df.columns
              THEN FrostRisk(df)
              ELSE DefaultClimate.frost_risk,
           max_temp |->
              IF "temp_max" \in df.columns
              THEN MaxOf(Values(Column(df, "temp_max")))
              ELSE DefaultClimate.max_temp,
           annual_rainfall |->
              IF "rain_sum" \in df.columns
              THEN SumSeq(Column(df, "rain_sum"))
              ELSE DefaultClimate.annual_rainfall,
           drought_risk |->
              IF "rain_sum" \in df.columns /\ EnoughData(df)
              THEN \E i \in 1..n : after.dry_spell[i]
              ELSE DefaultClimate.drought_risk]

(***************************************************************************)
(* CropRecommender._extract_forecast_climate: its result is not used by    *)
(* the scoring; it raises KeyError on a non-empty table without 'temp'.    *)
(***************************************************************************)
EmptyForecast == [columns |-> {}, rows |-> <<>>]

ForecastRaises(fdf) ==
    ~(fdf.rows = <<>> \/ fdf.columns = {}) /\ "temp" \notin fdf.columns

(***************************************************************************)
(* Sentences built with f-strings.  A sentence is kept as its fixed text,  *)
(* the word put into it, and the amounts printed in it, rounded as the     *)
(* format prints them.                                                     *)
(***************************************************************************)
Description(text, direction, amount) ==
    [text |-> text, direction |-> direction, amount |-> amount]

Message(text) == Description(text, "", <<>>)

\* f"{q:.1f}", f"{q:.2f}" on q >= 0: q rounded to so many decimals, a tie
\* going to the even digit
FormatFixed(q, places) ==
    LET scale == 10 ^ places
        whole == q[1] \div q[2]
        rest == (q[1] % q[2]) * scale
        digits == rest \div q[2]
        twice == 2 * (rest % q[2])
        up == twice > q[2] \/ (twice = q[2] /\ digits % 2 = 1)
    IN  Rat(whole * scale + digits + (IF up THEN 1 ELSE 0), scale)

\* the same for any q
FormatSigned(q, places) ==
    IF q[1] < 0 THEN RatNeg(FormatFixed(RatAbs(q), places))
    ELSE FormatFixed(q, places)

(***************************************************************************)
(* try: ... except Exception: whether a failure of the body reaches the    *)
(* caller.  The handler returns the fallback value in its place.           *)
(***************************************************************************)
\* the body with no handler around it
NoHandler(failed) == failed

ExceptException(failed) == FALSE

(***************************************************************************)
(* CropRecommender.recommend_crops                                         *)
(***************************************************************************)
Threshold == 40
TopN == 5

\* lines 208-230: the season of the current month in the hemisphere of lat
SeasonOf(latitude, month) ==
    IF latitude > 0
    THEN IF 3 <= month /\ month <= 5 THEN StrSpring
         ELSE IF 6 <= month /\ month <= 8 THEN StrSummer
         ELSE IF 9 <= month /\ month <= 11 THEN StrFall
         ELSE StrWinter
    ELSE IF 3 <= month /\ month <= 5 THEN StrFall
         ELSE IF 6 <= month /\ month <= 8 THEN StrWinter
         ELSE IF 9 <= month /\ month <= 11 THEN StrSpring
         ELSE StrSummer

\* line 238 with  or  in place of  and
InSeasonOr(season, crop_info) ==
    ~(~StrIn(season, crop_info.growing_season)
      \/ crop_info.growing_season # StrPerennial)

\* line 238: a crop is skipped when this is FALSE
InSeason(season, crop_info) ==
    ~(~StrIn(season, crop_info.growing_season)
      /\ crop_info.growing_season # StrPerennial)

\* lines 258-264: the tolerance penalties
DroughtPenalty(climate, crop_info, score) ==
    IF climate.drought_risk /\ ~crop_info.drought_tolerant
    THEN RatMul(score, Rat(7, 10))
    ELSE score

\* the frost penalty applied whatever the crop's frost tolerance
FrostPenaltyAnyCrop(climate, crop_info, score) ==
    IF climate.frost_risk
    THEN RatMul(score, Rat(8, 10))
    ELSE score

FrostPenalty(climate, crop_info, score) ==
    IF climate.frost_risk /\ ~crop_info.frost_tolerant
    THEN RatMul(score, Rat(8, 10))
    ELSE score

\* lines 241-264: temp_score and rainfall_score of one crop, penalties applied
SubScores(climate, crop_info) ==
    [temp_score |->
        FrostPenalty(climate, crop_info,
            CalculateTemperatureScore(climate.avg_temp, climate.min_temp,
                climate.max_temp, crop_info.min_temp, crop_info.optimal_temp,
                crop_info.max_temp)),
     rainfall_score |->
        DroughtPenalty(climate, crop_info,
            CalculateRainfallScore(climate.annual_rainfall,
                crop_info.min_rainfall, crop_info.max_rainfall))]

\* lines 267-268: overall_score * 100
Confidence(sub) ==
    RatMul(RatAdd(RatMul(sub.temp_score, Rat(6, 10)),
                  RatMul(sub.rainfall_score, Rat(4, 10))),
           RatInt(100))

\* lines 271-301: the sentences later joined with ". "
Reasons(climate, crop_info, sub) ==
    <<IF RatLess(Rat(8, 10), sub.temp_score) THEN "Temperature range is ideal"
      ELSE IF RatLess(Rat(6, 10), sub.temp_score) THEN "Temperature range is suitable"
      ELSE IF RatLess(Rat(4, 10), sub.temp_score)
           THEN "Temperature range is acceptable but not optimal"
      ELSE "Temperature range may be challenging",
      IF RatLess(Rat(8, 10), sub.rainfall_score) THEN "Precipitation levels are ideal"
      ELSE IF RatLess(Rat(6, 10), sub.rainfall_score)
           THEN "Precipitation levels are suitable"
      ELSE IF RatLess(Rat(4, 10), sub.rainfall_score)
           THEN "Precipitation levels are acceptable with proper irrigation"
      ELSE "Irrigation will be necessary">>
    \o (IF climate.drought_risk
        THEN IF crop_info.drought_tolerant
             THEN <<"Drought tolerance is advantageous in this climate">>
             ELSE <<"Drought risk requires careful water management">>
        ELSE <<>>)
    \o (IF climate.frost_risk
        THEN IF crop_info.frost_tolerant
             THEN <<"Frost tolerance is beneficial in this climate">>
             ELSE <<"Frost protection measures may be needed">>
        ELSE <<>>)

Experimental == "Consider as experimental with proper adaptations."

\* the keys of crop_scores, in insertion (catalog) order
ScoredCrops(season) ==
    SelectSeq(available_crops, LAMBDA c : InSeason(season, crop_data[c]))

\* the sort without reverse=True: ascending by score
RECURSIVE InsertAscending(_, _)
InsertAscending(sorted, item) ==
    IF sorted = <<>> THEN <<item>>
    ELSE IF RatLess(item[2], Head(sorted)[2])
         THEN <<item>> \o sorted
         ELSE <<Head(sorted)>> \o InsertAscending(Tail(sorted), item)

RECURSIVE SortedCropsAscending(_)
SortedCropsAscending(items) ==
    IF items = <<>> THEN <<>>
    ELSE InsertAscending(SortedCropsAscending(SubSeq(items, 1, Len(items) - 1)),
                         items[Len(items)])

\* line 306: sorted(crop_scores.items(), key=score, reverse=True); the sort is
\* stable, so crops of equal score keep their insertion order.  items is the
\* sequence of <<crop, score>> pairs in insertion order; each pair is placed
\* after the pairs of an equal or higher score that precede it.
RECURSIVE InsertDescending(_, _)
InsertDescending(sorted, item) ==
    IF sorted = <<>> THEN <<item>>
    ELSE IF RatLess(Head(sorted)[2], item[2])
         THEN <<item>> \o sorted
         ELSE <<Head(sorted)>> \o InsertDescending(Tail(sorted), item)

RECURSIVE SortedCrops(_)
SortedCrops(items) ==
    IF items = <<>> THEN <<>>
    ELSE InsertDescending(SortedCrops(SubSeq(items, 1, Len(items) - 1)),
                          items[Len(items)])

\* lines 309-315: sorted_crops[:5], those of at least 40 percent
TopCrops(sorted) ==
    SelectSeq(SubSeq(sorted, 1, IF Len(sorted) < TopN THEN Len(sorted) ELSE TopN),
              LAMBDA item : RatLeq(RatInt(Threshold), item[2]))

Recommendation(c, confidence, reasons) ==
    [crop |-> c, confidence |-> confidence, reasons |-> reasons]

\* the fallback of lines 318-324 taking the last crop of the sorted list
BuildRecommendationsLowest(items, reasons) ==
    LET sorted == SortedCrops(items)
        top == TopCrops(sorted)
        recs == [i \in 1..Len(top) |->
                    Recommendation(top[i][1], top[i][2], reasons[top[i][1]])]
    IN  IF recs = <<>> /\ sorted # <<>>
        THEN <<Recommendation(sorted[Len(sorted)][1], sorted[Len(sorted)][2],
                              reasons[sorted[Len(sorted)][1]] \o <<Experimental>>)>>
        ELSE recs

\* lines 305-326: items pairs each scored crop with its score, reasons maps a
\* crop to its sentences.
BuildRecommendations(items, reasons) ==
    LET sorted == SortedCrops(items)
        top == TopCrops(sorted)
        recs == [i \in 1..Len(top) |->
                    Recommendation(top[i][1], top[i][2], reasons[top[i][1]])]
    IN  IF recs = <<>> /\ sorted # <<>>
        THEN <<Recommendation(sorted[1][1], sorted[1][2],
                              reasons[sorted[1][1]] \o <<Experimental>>)>>
        ELSE recs

\* lines 331-335
FallbackRecommendations ==
    <<Recommendation("General crops", RatInt(50),
                     <<"Based on limited data analysis. Consider local successful crops as a guide.">>)>>

NoScores == [c \in {} |-> RatZero]
NoSubScores == [c \in {} |-> [temp_score |-> RatZero, rainfall_score |-> RatZero]]

\* lines 236-303, one entry per crop that passes the season filter, in
\* catalog order: <<crop, temp_score, rainfall_score, overall_score * 100>>
RECURSIVE ScoreCrops(_, _)
ScoreCrops(climate, scored) ==
    IF scored = <<>> THEN <<>>
    ELSE LET sub == SubScores(climate, crop_data[Head(scored)])
         IN  <<<<Head(scored), sub.temp_score, sub.rainfall_score,
                 Confidence(sub)>>>>
             \o ScoreCrops(climate, Tail(scored))

RecommendCrops ==
    /\ calls < MaxCalls
    /\ \E climate \in {ExtractClimateData(historical_df)} :
       \E season \in {SeasonOf(lat, current_month)} :
       \E table \in {ScoreCrops(climate, ScoredCrops(season))} :
          LET crops == {table[i][1] : i \in 1..Len(table)}
              row(c) == table[CHOOSE i \in 1..Len(table) : table[i][1] = c]
              subs == [c \in crops |->
                         [temp_score |-> row(c)[2], rainfall_score |-> row(c)[3]]]
              items == [i \in 1..Len(table) |-> <<table[i][1], table[i][4]>>]
              reasons == [c \in crops |-> Reasons(climate, crop_data[c], subs[c])]
          IN  /\ historical_df' = TableAfterExtract(historical_df)
              /\ climate_data' = climate
              /\ IF ForecastRaises(forecast_df)
                 THEN /\ recommendations' = FallbackRecommendations
                      /\ UNCHANGED <<current_season, crop_scores, sub_scores>>
                 ELSE /\ current_season' = season
                      /\ crop_scores' = [c \in crops |-> row(c)[4]]
                      /\ sub_scores' = subs
                      /\ recommendations' = BuildRecommendations(items, reasons)
    /\ raised' = ExceptException(ForecastRaises(forecast_df))
    /\ calls' = calls + 1
    /\ last_call' = "recommend_crops"
    /\ UNCHANGED <<forecast_df, lat, current_month, crop_name, temp_score,
                   rainfall_score, analysis_vars>>
    /\ UNCHANGED <<pattern_vars, service_vars, database_vars>>

(***************************************************************************)
(* CropRecommender.get_crop_insights                                       *)
(***************************************************************************)
\* lines 361-376: temp_score * 0.6 + rainfall_score * 0.4
OverallScore(climate, crop_info) ==
    RatAdd(RatMul(CalculateTemperatureScore(climate.avg_temp, climate.min_temp,
                      climate.max_temp, crop_info.min_temp,
                      crop_info.optimal_temp, crop_info.max_temp),
                  Rat(6, 10)),
           RatMul(CalculateRainfallScore(climate.annual_rainfall,
                      crop_info.min_rainfall, crop_info.max_rainfall),
                  Rat(4, 10)))

\* lines 378-386
Suitability(overall_score) ==
    IF RatLess(Rat(8, 10), overall_score) THEN "Excellent match for this climate"
    ELSE IF RatLess(Rat(6, 10), overall_score)
         THEN "Good match with proper management"
    ELSE IF RatLess(Rat(4, 10), overall_score)
         THEN "Fair match with adaptations required"
    ELSE "Challenging match, consider alternatives"

\* lines 388-401
InsightSummary(crop, climate, crop_info, overall_score) ==
    <<Description("Overall climate suitability for", crop,
                  FormatFixed(RatMul(overall_score, RatInt(100)), 0))>>
    \o (IF RatLess(CalculateTemperatureScore(climate.avg_temp, climate.min_temp,
                       climate.max_temp, crop_info.min_temp,
                       crop_info.optimal_temp, crop_info.max_temp), Rat(6, 10))
        THEN <<Description("The average temperature is",
                   IF RatLess(climate.avg_temp, RatInt(crop_info.optimal_temp))
                   THEN "below the optimal" ELSE "above the optimal",
                   <<FormatSigned(climate.avg_temp, 1), crop_info.optimal_temp>>)>>
        ELSE <<>>)
    \o (IF RatLess(CalculateRainfallScore(climate.annual_rainfall,
                       crop_info.min_rainfall, crop_info.max_rainfall), Rat(6, 10))
        THEN IF climate.annual_rainfall < crop_info.min_rainfall
             THEN <<Description("Annual rainfall is", "below the minimum",
                        <<climate.annual_rainfall, crop_info.min_rainfall>>)>>
             ELSE IF climate.annual_rainfall > crop_info.max_rainfall
             THEN <<Description("Annual rainfall", "exceeds the maximum",
                        <<climate.annual_rainfall, crop_info.max_rainfall>>)>>
             ELSE <<>>
        ELSE <<>>)

\* lines 403-422 and 452-454
Challenges(climate, crop_info) ==
    LET found ==
            (IF climate.min_temp < crop_info.min_temp
             THEN <<Description("Minimum temperatures may be too cold", "",
                        <<climate.min_temp, crop_info.min_temp>>)>>
             ELSE <<>>)
            \o (IF climate.max_temp > crop_info.max_temp
                THEN <<Description("Maximum temperatures may cause heat stress", "",
                           <<climate.max_temp, crop_info.max_temp>>)>>
                ELSE <<>>)
            \o (IF climate.annual_rainfall < crop_info.min_rainfall
                THEN <<Description("Insufficient natural rainfall", "",
                           <<climate.annual_rainfall, crop_info.min_rainfall>>)>>
                ELSE <<>>)
            \o (IF climate.annual_rainfall > crop_info.max_rainfall
                THEN <<Description("Excessive rainfall may increase disease pressure",
                           "", <<climate.annual_rainfall, crop_info.max_rainfall>>)>>
                ELSE <<>>)
            \o (IF climate.drought_risk /\ ~crop_info.drought_tolerant
                THEN <<Message("Drought periods may affect crop development as this variety has low drought tolerance")>>
                ELSE <<>>)
            \o (IF climate.frost_risk /\ ~crop_info.frost_tolerant
                THEN <<Message("Frost risk may damage crops as this variety has low frost tolerance")>>
                ELSE <<>>)
    IN  IF found = <<>>
        THEN <<Message("No major climate challenges identified for this crop")>>
        ELSE found

\* lines 427-450: what one challenge adds to the recommendations
AdviseFirst(challenged, advice) ==
    IF challenged THEN <<advice[1]>> ELSE <<>>

Advise(challenged, advice) ==
    IF challenged THEN advice ELSE <<>>

\* lines 424-450 and 456-458
InsightRecommendations(climate, crop_info) ==
    LET found ==
            Advise(climate.min_temp < crop_info.min_temp,
                   <<"Consider using row covers or high tunnels for cold protection",
                     "Plant after risk of frost has passed">>)
            \o Advise(climate.max_temp > crop_info.max_temp,
                      <<"Use shade cloth during peak heat periods",
                        "Plant early to avoid peak summer heat for maturation">>)
            \o Advise(climate.annual_rainfall < crop_info.min_rainfall,
                      <<"Implement efficient irrigation systems",
                        "Use mulch to conserve soil moisture">>)
            \o Advise(climate.annual_rainfall > crop_info.max_rainfall,
                      <<"Ensure good drainage to prevent waterlogging",
                        "Consider raised beds to improve drainage",
                        "Implement disease monitoring and prevention strategies">>)
            \o Advise(climate.drought_risk /\ ~crop_info.drought_tolerant,
                      <<"Develop a drought contingency irrigation plan",
                        "Consider drought-resistant varieties or alternative crops">>)
            \o Advise(climate.frost_risk /\ ~crop_info.frost_tolerant,
                      <<"Have frost protection measures ready (covers, sprinklers)",
                        "Monitor weather forecasts closely during frost-risk periods">>)
    IN  IF found = <<>>
        THEN <<"Follow standard agricultural practices for this crop",
               "Monitor for pests and diseases common to this crop">>
        ELSE found

CropInsight(crop, climate) ==
    LET crop_info == crop_data[crop]
        overall_score == OverallScore(climate, crop_info)
    IN  [overall_score |-> overall_score,
         suitability |-> Suitability(overall_score),
         summary |-> InsightSummary(crop, climate, crop_info, overall_score),
         challenges |-> Challenges(climate, crop_info),
         recommendations |-> InsightRecommendations(climate, crop_info)]

\* lines 473-478
default_insight ==
    [suitability |-> "Unable to determine accurately",
     summary |-> <<Message("Analysis could not be completed with the available data.")>>,
     challenges |-> <<Message("Insufficient climate data for detailed analysis")>>,
     recommendations |-> <<"Consult local agricultural extension services for specific advice">>]

\* the dictionary returned: one entry per crop of crop_list that is in the
\* catalog, or default_insight for every crop of crop_list on a failure
GetCropInsightsOf(crop_list, climate, fdf) ==
    LET asked == {crop_list[i] : i \in 1..Len(crop_list)}
    IN  IF ForecastRaises(fdf)
        THEN [c \in asked |-> default_insight]
        ELSE [c \in asked \cap CropNames |-> CropInsight(c, climate)]

\* what the user selects: nothing, one crop, or a crop twice among others
CropLists ==
    {<<>>, <<"Corn">>, <<"Alfalfa">>, <<"Wheat", "Rice", "Wheat">>}

GetCropInsights ==
    /\ calls < MaxCalls
    /\ \E climate \in {ExtractClimateData(historical_df)} :
       \E crop_list \in CropLists :
          /\ historical_df' = TableAfterExtract(historical_df)
          /\ climate_data' = climate
          /\ insights' = GetCropInsightsOf(crop_list, climate, forecast_df)
    /\ raised' = ExceptException(ForecastRaises(forecast_df))
    /\ calls' = calls + 1
    /\ last_call' = "get_crop_insights"
    /\ UNCHANGED <<forecast_df, lat, current_month, current_season, crop_scores,
                   sub_scores, recommendations, crop_name, temp_score,
                   rainfall_score, historical_data, column, trend_per_month,
                   trends, predictions, results, seasonal>>
    /\ UNCHANGED <<pattern_vars, service_vars, database_vars>>

(***************************************************************************)
(* Inputs                                                                  *)
(***************************************************************************)
FrostDay == Day(0 - 3, 0 - 8, 2, 0)
MildDay == Day(20, 12, 28, 30)
HotDay == Day(32, 24, 41, 0)
StormDay == Day(25, 20, 30, 80)
DrizzleDay == Day(15, 9, 21, 1)

\* Tables given to recommend_crops: two runs of equal days.
RunLengths == {0, 6, 15, 16}
RunDays == {FrostDay, MildDay, HotDay, StormDay}

RecommendTables ==
    {Table(Rep(n1, d1) \o Rep(n2, d2)) :
        n1 \in RunLengths, n2 \in RunLengths, d1 \in RunDays, d2 \in RunDays}

\* Tables given to the summariser: rain, a dry run, days of 1 mm, a dry run of
\* frost days, rain.
ClimateTables ==
    {Table(Rep(a, MildDay) \o Rep(b, HotDay) \o Rep(c, DrizzleDay)
           \o Rep(d, FrostDay) \o Rep(e, StormDay)) :
        a \in 0..MaxPad, b \in 0..MaxDry, c \in 0..MaxGap, d \in 0..MaxFrost,
        e \in 0..MaxTail}

ForecastColumns ==
    {"timestamp", "time", "temp", "feels_like", "temp_min", "temp_max",
     "pressure", "humidity", "clouds", "wind_speed", "rain", "snow"}

ForecastTables ==
    {EmptyForecast,
     [columns |-> ForecastColumns, rows |-> <<[temp |-> 18, rain |-> 0]>>]}

Latitudes == {0 - 30, 0, 45}
Months == 1..12

(***************************************************************************)
(* The recommender: one location, one clock reading, repeated calls        *)
(***************************************************************************)
NoCall ==
    /\ calls = 0
    /\ last_call = "none"
    /\ climate_data = DefaultClimate
    /\ current_season = <<>>
    /\ crop_scores = NoScores
    /\ sub_scores = NoSubScores
    /\ recommendations = <<>>
    /\ temp_score = <<>>
    /\ rainfall_score = <<>>
    /\ raised = FALSE

\* SoilMoistureService.__init__ (lines 15-20): no simulation, an empty queue
NoSimulation ==
    /\ simulation_running = FALSE
    /\ simulation_thread = 0
    /\ data_queue = <<>>
    /\ worker = [t \in 1..MaxWorkers |-> "unborn"]
    /\ caller = "idle"
    /\ consumer = [pc |-> "idle", max_items |-> 0, left |-> 0,
                   readings |-> <<>>]
    /\ started = <<>>
    /\ latest_readings = <<>>
    /\ enqueued = <<>>
    /\ delivered = <<>>

\* init_db (database.py lines 100-104): the tables exist and are empty
NoDatabase ==
    /\ soil_moisture_sensors = <<>>
    /\ soil_moisture_readings = <<>>
    /\ saved_locations = <<>>
    /\ location_data = <<>>

\* nothing processed or analysed yet
NoAnalysis ==
    /\ historical_data = <<>>
    /\ column = "temp_avg"
    /\ trend_per_month = <<>>
    /\ trends = <<>>
    /\ predictions = <<>>
    /\ insights = <<>>
    /\ results = <<>>
    /\ seasonal = <<>>
    /\ anomalies = <<>>
    /\ patterns = <<>>

Init ==
    /\ historical_df \in RecommendTables
    /\ forecast_df \in ForecastTables
    /\ lat \in Latitudes
    /\ current_month \in Months
    /\ crop_name = "Corn"
    /\ NoCall
    /\ NoAnalysis
    /\ NoSimulation
    /\ NoDatabase

Next == RecommendCrops

Spec == Init /\ [][Next]_vars

(***************************************************************************)
(* The climate summariser called on its own                                *)
(***************************************************************************)
ExtractClimate ==
    /\ calls < MaxCalls
    /\ climate_data' = ExtractClimateData(historical_df)
    /\ historical_df' = TableAfterExtract(historical_df)
    /\ calls' = calls + 1
    /\ last_call' = "_extract_climate_data"
    /\ raised' = FALSE
    /\ UNCHANGED <<forecast_df, lat, current_month, current_season, crop_scores,
                   sub_scores, recommendations, crop_name, temp_score,
                   rainfall_score, analysis_vars>>
    /\ UNCHANGED <<pattern_vars, service_vars, database_vars>>

InitClimate ==
    /\ historical_df \in ClimateTables
    /\ forecast_df = EmptyForecast
    /\ lat = 45
    /\ current_month = 1
    /\ crop_name = "Corn"
    /\ NoCall
    /\ NoAnalysis
    /\ NoSimulation
    /\ NoDatabase

NextClimate == ExtractClimate

SpecClimate == InitClimate /\ [][NextClimate]_vars

(***************************************************************************)
(* The two scoring functions applied to one crop profile                   *)
(***************************************************************************)
ScoredTemperatures ==
    {[avg_temp |-> RatAdd(RatInt(t), h), min_temp |-> t - d1 * d1,
      max_temp |-> t + d2 * d2] :
        t \in (0 - MaxCold)..MaxWarm, h \in {RatZero, Rat(1, 2)},
        d1 \in 0..MaxSpread, d2 \in 0..MaxSpread}

CalcTemperatureScore ==
    /\ temp_score = <<>>
    /\ temp_score' =
          CalculateTemperatureScore(climate_data.avg_temp, climate_data.min_temp,
              climate_data.max_temp, crop_data[crop_name].min_temp,
              crop_data[crop_name].optimal_temp, crop_data[crop_name].max_temp)
    /\ last_call' = "_calculate_temperature_score"
    /\ UNCHANGED <<historical_df, forecast_df, lat, current_month, calls,
                   climate_data, current_season, crop_scores, sub_scores,
                   recommendations, crop_name, rainfall_score, raised,
                   analysis_vars>>
    /\ UNCHANGED <<pattern_vars, service_vars, database_vars>>

InitTemp ==
    /\ historical_df = EmptyTable
    /\ forecast_df = EmptyForecast
    /\ lat = 45
    /\ current_month = 1
    /\ crop_name \in CropNames
    /\ calls = 0
    /\ last_call = "none"
    /\ \E t \in ScoredTemperatures :
          climate_data = [DefaultClimate EXCEPT !.avg_temp = t.avg_temp,
                              !.min_temp = t.min_temp, !.max_temp = t.max_temp]
    /\ current_season = <<>>
    /\ crop_scores = NoScores
    /\ sub_scores = NoSubScores
    /\ recommendations = <<>>
    /\ temp_score = <<>>
    /\ rainfall_score = <<>>
    /\ raised = FALSE
    /\ NoAnalysis
    /\ NoSimulation
    /\ NoDatabase

NextTemp == CalcTemperatureScore

SpecTemp == InitTemp /\ [][NextTemp]_vars

CalcRainfallScore ==
    /\ rainfall_score = <<>>
    /\ rainfall_score' =
          CalculateRainfallScore(climate_data.annual_rainfall,
              crop_data[crop_name].min_rainfall, crop_data[crop_name].max_rainfall)
    /\ last_call' = "_calculate_rainfall_score"
    /\ UNCHANGED <<historical_df, forecast_df, lat, current_month, calls,
                   climate_data, current_season, crop_scores, sub_scores,
                   recommendations, crop_name, temp_score, raised,
                   analysis_vars>>
    /\ UNCHANGED <<pattern_vars, service_vars, database_vars>>

InitRain ==
    /\ historical_df = EmptyTable
    /\ forecast_df = EmptyForecast
    /\ lat = 45
    /\ current_month = 1
    /\ crop_name \in CropNames
    /\ calls = 0
    /\ last_call = "none"
    /\ \E r \in 0..MaxRain :
          climate_data = [DefaultClimate EXCEPT !.annual_rainfall = r]
    /\ current_season = <<>>
    /\ crop_scores = NoScores
    /\ sub_scores = NoSubScores
    /\ recommendations = <<>>
    /\ temp_score = <<>>
    /\ rainfall_score = <<>>
    /\ raised = FALSE
    /\ NoAnalysis
    /\ NoSimulation
    /\ NoDatabase

NextRain == CalcRainfallScore

SpecRain == InitRain /\ [][NextRain]_vars

(***************************************************************************)
(* DataProcessor.process_historical_data on a list of daily records.  A    *)
(* record's date is a calendar day <<month, day>> of one year that is not  *)
(* a leap year; pd.to_datetime turns it into a point of time, here the     *)
(* number of the day in the year.                                          *)
(***************************************************************************)
DaysInMonth == <<31, 28, 31, 30, 31, 30, 31, 31, 30, 31, 30, 31>>

ToDatetime(date) ==
    SumSeq([m \in 1..(date[1] - 1) |-> DaysInMonth[m]]) + date[2]

\* lines 78-94 on one record: the date converted, the numbers kept
ProcessedRecord(rec) ==
    [date |-> ToDatetime(rec.date), temp_avg |-> rec.temp_avg,
     temp_min |-> rec.temp_min, temp_max |-> rec.temp_max,
     rain_sum |-> rec.rain_sum]

\* df.drop_duplicates(subset=['date'], keep='first'), which leaves the rows in
\* the order they had
RECURSIVE DropDuplicates(_, _)
DropDuplicates(rows, seen) ==
    IF rows = <<>> THEN <<>>
    ELSE IF Head(rows).date \in seen
         THEN DropDuplicates(Tail(rows), seen)
         ELSE <<Head(rows)>>
              \o DropDuplicates(Tail(rows), seen \cup {Head(rows).date})

ProcessHistorical(data) ==
    IF data = <<>> THEN EmptyTable
    ELSE Table(DropDuplicates([i \in 1..Len(data) |-> ProcessedRecord(data[i])],
                              {}))

ProcessHistoricalData ==
    /\ calls < MaxCalls
    /\ historical_df' = ProcessHistorical(historical_data)
    /\ calls' = calls + 1
    /\ last_call' = "process_historical_data"
    /\ raised' = FALSE
    /\ UNCHANGED <<forecast_df, lat, current_month, climate_data, current_season,
                   crop_scores, sub_scores, recommendations, crop_name,
                   temp_score, rainfall_score, analysis_vars>>
    /\ UNCHANGED <<pattern_vars, service_vars, database_vars>>

MaxRaw == 4       \* records in a list given to process_historical_data

RawDates == {<<1, 31>>, <<2, 1>>, <<3, 1>>}

RawRecords ==
    {[date |-> d, temp_avg |-> t, temp_min |-> t - 5, temp_max |-> t + 5,
      rain_sum |-> 0] : d \in RawDates, t \in {10, 20}}

RECURSIVE RawLists(_)
RawLists(n) ==
    IF n = 0 THEN {<<>>}
    ELSE RawLists(n - 1)
         \cup {Append(l, r) : l \in {k \in RawLists(n - 1) : Len(k) = n - 1},
                              r \in RawRecords}

InitProcess ==
    /\ historical_df = EmptyTable
    /\ forecast_df = EmptyForecast
    /\ lat = 45
    /\ current_month = 1
    /\ crop_name = "Corn"
    /\ NoCall
    /\ historical_data \in RawLists(MaxRaw)
    /\ column = "temp_avg"
    /\ trend_per_month = <<>>
    /\ trends = <<>>
    /\ predictions = <<>>
    /\ insights = <<>>
    /\ results = <<>>
    /\ seasonal = <<>>
    /\ anomalies = <<>>
    /\ patterns = <<>>
    /\ NoSimulation
    /\ NoDatabase

NextProcess == ProcessHistoricalData

SpecProcess == InitProcess /\ [][NextProcess]_vars

(***************************************************************************)
(* WeatherPatternAnalyzer.  The analyzer's tables keep each value as a     *)
(* cell: <<v>> for the number v and <<>> for a missing value (NaN).  A     *)
(* row's date is the number of its day; datetime_index tells whether the   *)
(* index of the table is a DatetimeIndex holding the dates.                *)
(***************************************************************************)
NaN == <<>>
Cell(v) == <<v>>

Frame(cols, datetime, rows) ==
    [columns |-> cols, datetime_index |-> datetime, rows |-> rows]

\* the positions of the rows that  df[column].dropna()  keeps
RECURSIVE DropNa(_, _, _)
DropNa(rows, name, i) ==
    IF i > Len(rows) THEN <<>>
    ELSE (IF rows[i][name] = NaN THEN <<>> ELSE <<i>>) \o DropNa(rows, name, i + 1)

\* np.polyfit(x, y, 1)[0]: the slope of the least-squares line
Polyfit(x, y) ==
    LET n == Len(x)
        sx == SumSeq(x)
        sy == SumSeq(y)
        sxy == SumSeq([k \in 1..n |-> x[k] * y[k]])
        sxx == SumSeq([k \in 1..n |-> x[k] * x[k]])
    IN  Rat(n * sxy - sx * sy, n * sxx - sx * sx)

MinPoints == 10   \* if len(data) < 10: return 0
DaysPerMonth == 30

\* _calculate_trend with  < 9  in place of  < 10
CalculateTrendNinePoints(df, name) ==
    IF name \notin df.columns THEN RatZero
    ELSE
      LET data == DropNa(df.rows, name, 1)
          n == Len(data)
      IN  IF n < 9 THEN RatZero
          ELSE
            LET first == MinOf({df.rows[data[k]].date : k \in 1..n})
                x == IF df.datetime_index
                     THEN [k \in 1..n |-> df.rows[data[k]].date - first]
                     ELSE [k \in 1..n |-> k - 1]
                y == [k \in 1..n |-> df.rows[data[k]][name][1]]
            IN  IF \A k \in 1..n : x[k] = 0
                THEN RatMul(RatInt(DaysPerMonth * (n - 1)),
                            Polyfit([k \in 1..n |-> k - 1], y))
                ELSE RatMul(RatInt(DaysPerMonth), Polyfit(x, y))

\* x is the days since the first date kept, or the position when the index
\* holds no dates.  When every x is 0, x becomes np.linspace(0, 1, n), that is
\* (k - 1) / (n - 1): the slope over it is n - 1 times the slope over k - 1.
CalculateTrend(df, name) ==
    IF name \notin df.columns THEN RatZero
    ELSE
      LET data == DropNa(df.rows, name, 1)
          n == Len(data)
      IN  IF n < MinPoints THEN RatZero
          ELSE
            LET first == MinOf({df.rows[data[k]].date : k \in 1..n})
                x == IF df.datetime_index
                     THEN [k \in 1..n |-> df.rows[data[k]].date - first]
                     ELSE [k \in 1..n |-> k - 1]
                y == [k \in 1..n |-> df.rows[data[k]][name][1]]
            IN  IF \A k \in 1..n : x[k] = 0
                THEN RatMul(RatInt(DaysPerMonth * (n - 1)),
                            Polyfit([k \in 1..n |-> k - 1], y))
                ELSE RatMul(RatInt(DaysPerMonth), Polyfit(x, y))

CalcTrend ==
    /\ trend_per_month = <<>>
    /\ trend_per_month' = CalculateTrend(historical_df, column)
    /\ last_call' = "_calculate_trend"
    /\ UNCHANGED <<historical_df, forecast_df, lat, current_month, calls,
                   climate_data, current_season, crop_scores, sub_scores,
                   recommendations, crop_name, temp_score, rainfall_score,
                   raised, historical_data, column, trends, predictions,
                   insights, results, seasonal>>
    /\ UNCHANGED <<pattern_vars, service_vars, database_vars>>

MaxPoints == 11   \* rows of a table given to _calculate_trend
MaxMissing == 2   \* missing values at the start of its column
MaxRise == 2      \* degrees by which the column rises per day

\* one column that rises by a degrees a day, in a zigzag, its first m values
\* missing; the rows are dated day by day, or all on one day
TrendFrames ==
    {Frame({"date", "temp_avg"}, dt,
           [i \in 1..n |->
               [date |-> IF oneday THEN 1 ELSE i,
                temp_avg |-> IF i <= m THEN NaN ELSE Cell(a * i + (i % 2))]]) :
        n \in 0..MaxPoints, m \in 0..MaxMissing, a \in 0..MaxRise,
        dt \in BOOLEAN, oneday \in BOOLEAN}

TrendColumns == {"temp_avg", "rain_sum"}

InitTrend ==
    /\ historical_df \in TrendFrames
    /\ forecast_df = EmptyForecast
    /\ lat = 45
    /\ current_month = 1
    /\ crop_name = "Corn"
    /\ NoCall
    /\ historical_data = <<>>
    /\ column \in TrendColumns
    /\ trend_per_month = <<>>
    /\ trends = <<>>
    /\ predictions = <<>>
    /\ insights = <<>>
    /\ results = <<>>
    /\ seasonal = <<>>
    /\ anomalies = <<>>
    /\ patterns = <<>>
    /\ NoSimulation
    /\ NoDatabase

NextTrend == CalcTrend

SpecTrend == InitTrend /\ [][NextTrend]_vars

(***************************************************************************)
(* WeatherPatternAnalyzer._analyze_trends                                  *)
(***************************************************************************)
\* df.sort_index(): the rows in ascending order of their dates
RECURSIVE InsertByDate(_, _)
InsertByDate(sorted, row) ==
    IF sorted = <<>> THEN <<row>>
    ELSE IF sorted[Len(sorted)].date <= row.date THEN Append(sorted, row)
         ELSE Append(InsertByDate(SubSeq(sorted, 1, Len(sorted) - 1), row),
                     sorted[Len(sorted)])

RECURSIVE SortIndex(_)
SortIndex(rows) ==
    IF rows = <<>> THEN <<>>
    ELSE InsertByDate(SortIndex(SubSeq(rows, 1, Len(rows) - 1)), rows[Len(rows)])

RECURSIVE RatSum(_)
RatSum(s) ==
    IF s = <<>> THEN RatZero
    ELSE LET rest == RatSum(Tail(s))
         IN  IF rest[2] = 0 THEN rest ELSE RatAdd(Head(s), rest)

\* Series.mean(): the mean of the values that are not missing, NaN when there
\* is none
RECURSIVE Present(_)
Present(cells) ==
    IF cells = <<>> THEN <<>>
    ELSE (IF Head(cells) = NaN THEN <<>> ELSE <<Head(cells)[1]>>)
         \o Present(Tail(cells))

MeanOf(cells) ==
    LET kept == Present(cells)
    IN  IF kept = <<>> THEN NaN
        ELSE Cell(RatMul(RatSum(kept), Rat(1, Len(kept))))

Window == 30      \* rolling(window=30); also the least number of rows

\* df[name].rolling(window=30).mean(): at row i the mean of rows i-29 .. i,
\* missing when the window is not full or holds a missing value
RollingMean(rows, name) ==
    [i \in 1..Len(rows) |->
        IF i < Window \/ \E j \in (i - Window + 1)..i : rows[j][name] = NaN
        THEN NaN
        ELSE Cell(Rat(SumSeq([j \in 1..Window |->
                                 rows[i - Window + j][name][1]]), Window))]

TemperatureFloor == <<1, 100>>    \* abs(temp_trend) > 0.01
RainFloor == <<1, 2>>             \* abs(rain_trend) > 0.5
HumidityFloor == <<1, 2>>         \* abs(humidity_trend) > 0.5

\* one "... has been increasing/decreasing by approximately ..." sentence, or
\* none
TrendSentence(text, trend, floor, places) ==
    IF RatLess(floor, RatAbs(trend))
    THEN <<Description(text,
                       IF RatLess(RatZero, trend) THEN "increasing"
                       ELSE "decreasing",
                       FormatFixed(RatAbs(trend), places))>>
    ELSE <<>>

\* rolling_temp.iloc[:30].mean()
FirstMonth(rolling_temp) == MeanOf(SubSeq(rolling_temp, 1, Window))

\* rolling_temp.iloc[-30:].mean()
LastMonth(rolling_temp) ==
    MeanOf(SubSeq(rolling_temp, Len(rolling_temp) - Window + 1,
                  Len(rolling_temp)))

\* lines 364-375, on the sorted rows of a table with a temp_avg column; a
\* comparison with NaN is False
GeneralObservation(rows) ==
    LET rolling_temp == RollingMean(rows, "temp_avg")
        last_month == LastMonth(rolling_temp)
        first_month == FirstMonth(rolling_temp)
    IN  IF last_month = NaN \/ first_month = NaN THEN <<>>
        ELSE LET temp_change == RatSub(last_month[1], first_month[1])
             IN  IF RatLess(RatOne, RatAbs(temp_change))
                 THEN <<Description("The recent period has been",
                           IF RatLess(RatZero, temp_change) THEN "warmer"
                           ELSE "cooler",
                           FormatFixed(RatAbs(temp_change), 1))>>
                 ELSE <<>>

\* the descriptions returned; a KeyError on a missing temp_avg column at line
\* 367 is caught at line 383 with the sentences found so far kept
\* line 334: if len(df) < 30
TooShortInclusive(df) == Len(df.rows) <= Window

TooShort(df) == Len(df.rows) < Window

AnalyzeTrendsOf(df) ==
    IF "date" \notin df.columns /\ ~df.datetime_index
    THEN <<Message("Unable to analyze trends due to missing date information.")>>
    ELSE
      LET sorted == Frame(df.columns, TRUE, SortIndex(df.rows))
      IN  IF TooShort(sorted)
          THEN <<Message("Insufficient historical data for detailed trend analysis.")>>
          ELSE
            LET found ==
                    TrendSentence("Temperature has been",
                        CalculateTrend(sorted, "temp_avg"), TemperatureFloor, 2)
                    \o (IF "rain_sum" \in sorted.columns
                        THEN TrendSentence("Precipitation has been",
                                 CalculateTrend(sorted, "rain_sum"), RainFloor, 1)
                        ELSE <<>>)
                    \o (IF "humidity_avg" \in sorted.columns
                        THEN TrendSentence("Humidity has been",
                                 CalculateTrend(sorted, "humidity_avg"),
                                 HumidityFloor, 1)
                        ELSE <<>>)
            IN  IF "temp_avg" \notin sorted.columns
                THEN Append(found,
                         Message("Unable to analyze weather trends due to data issues."))
                ELSE LET all == found \o GeneralObservation(sorted.rows)
                     IN  IF all = <<>>
                         THEN <<Message("No significant weather trends detected in the available data.")>>
                         ELSE all

\* whether line 367 raises KeyError inside the try
AnalyzeTrendsFails(df) ==
    /\ "date" \in df.columns \/ df.datetime_index
    /\ Len(df.rows) >= Window
    /\ "temp_avg" \notin df.columns

AnalyzeTrends ==
    /\ calls < MaxCalls
    /\ trends' = AnalyzeTrendsOf(historical_df)
    /\ calls' = calls + 1
    /\ last_call' = "_analyze_trends"
    /\ raised' = ExceptException(AnalyzeTrendsFails(historical_df))
    /\ UNCHANGED <<historical_df, forecast_df, lat, current_month, climate_data,
                   current_season, crop_scores, sub_scores, recommendations,
                   crop_name, temp_score, rainfall_score, historical_data,
                   column, trend_per_month, predictions, insights, results,
                   seasonal>>
    /\ UNCHANGED <<pattern_vars, service_vars, database_vars>>

MinDays == 27     \* rows of the shortest table given to _analyze_trends
MaxDays == 61     \* rows of the longest one
MaxJump == 3      \* degrees by which temp_avg rises once, at a given row

\* daily rows: temp_avg is 10 up to row k and 10 + jump after it, rain_sum
\* goes 0, 1, 2 and humidity_avg stays at 50
TrendsFrames ==
    {Frame(cols, dt,
           [i \in 1..n |->
               [date |-> i,
                temp_avg |-> Cell(IF i <= k THEN 10 ELSE 10 + jump),
                rain_sum |-> Cell(i % 3),
                humidity_avg |-> Cell(50)]]) :
        n \in MinDays..MaxDays, k \in {0, 10, 30}, jump \in 0..MaxJump,
        dt \in BOOLEAN,
        cols \in {{"date", "temp_avg", "rain_sum", "humidity_avg"},
                  {"date", "rain_sum", "humidity_avg"}}}

InitTrends ==
    /\ historical_df \in TrendsFrames
    /\ forecast_df = EmptyForecast
    /\ lat = 45
    /\ current_month = 1
    /\ crop_name = "Corn"
    /\ NoCall
    /\ NoAnalysis
    /\ NoSimulation
    /\ NoDatabase

NextTrends == AnalyzeTrends

SpecTrends == InitTrends /\ [][NextTrends]_vars

(***************************************************************************)
(* WeatherPatternAnalyzer._predict_upcoming_conditions.  A forecast row    *)
(* holds the point of time <<day, hour>> it is for, and plain numbers:     *)
(* process_forecast_data has filled what was missing.                      *)
(***************************************************************************)
ColumnCells(df, name) == [i \in 1..Len(df.rows) |-> df.rows[i][name]]

\* df[name].mean() on a column of whole numbers, the missing ones skipped
ColumnMean(df, name) ==
    LET kept == Present(ColumnCells(df, name))
    IN  IF kept = <<>> THEN NaN ELSE Cell(Rat(SumSeq(kept), Len(kept)))

\* the k-th smallest of the numbers in s
Smallest(s, k) ==
    CHOOSE v \in Values(s) :
        /\ Cardinality({i \in 1..Len(s) : s[i] < v}) < k
        /\ Cardinality({i \in 1..Len(s) : s[i] <= v}) >= k

\* Series.quantile(q) for q = num / den: between the two values next to
\* position (n - 1) * q of the sorted values that are not missing
Quantile(cells, num, den) ==
    LET kept == Present(cells)
        n == Len(kept)
    IN  IF n = 0 THEN NaN
        ELSE LET below == ((n - 1) * num) \div den
                 part == Rat(((n - 1) * num) % den, den)
                 lo == Smallest(kept, below + 1)
                 hi == IF below + 2 <= n THEN Smallest(kept, below + 2) ELSE lo
             IN  Cell(RatAdd(RatInt(lo), RatMul(part, RatInt(hi - lo))))

\* forecast_df['time'].nunique()
Nunique(fdf, name) == Cardinality({fdf.rows[i][name] : i \in 1..Len(fdf.rows)})

ForecastMean(fdf, name, from, to) ==
    Rat(SumSeq([k \in 1..(to - from + 1) |-> fdf.rows[from + k - 1][name]]),
        to - from + 1)

\* lines 600-608: the label of the difference to the historical mean
TempComparisonInclusive(temp_diff) ==
    IF temp_diff = NaN THEN "similar to"
    ELSE IF ~RatLess(temp_diff[1], RatInt(3)) THEN "significantly warmer than"
    ELSE IF ~RatLess(temp_diff[1], RatInt(1)) THEN "warmer than"
    ELSE IF ~RatLess(RatInt(0 - 3), temp_diff[1])
    THEN "significantly cooler than"
    ELSE IF ~RatLess(RatInt(0 - 1), temp_diff[1]) THEN "cooler than"
    ELSE "similar to"

TempComparison(temp_diff) ==
    IF temp_diff = NaN THEN "similar to"
    ELSE IF RatLess(RatInt(3), temp_diff[1]) THEN "significantly warmer than"
    ELSE IF RatLess(RatInt(1), temp_diff[1]) THEN "warmer than"
    ELSE IF RatLess(temp_diff[1], RatInt(0 - 3)) THEN "significantly cooler than"
    ELSE IF RatLess(temp_diff[1], RatInt(0 - 1)) THEN "cooler than"
    ELSE "similar to"

\* lines 613-617; a comparison with NaN is False
UnusualTemperatures(hdf, fdf) ==
    LET temps == {fdf.rows[i].temp : i \in 1..Len(fdf.rows)}
        high == Quantile(ColumnCells(hdf, "temp_max"), 9, 10)
        low == Quantile(ColumnCells(hdf, "temp_min"), 1, 10)
    IN  (IF high # NaN /\ RatLess(high[1], RatInt(MaxOf(temps)))
         THEN <<Description("Unusually warm temperatures expected", "",
                            RatInt(MaxOf(temps)))>>
         ELSE <<>>)
        \o (IF "temp_min" \in hdf.columns /\ low # NaN
               /\ RatLess(RatInt(MinOf(temps)), low[1])
            THEN <<Description("Unusually cool temperatures expected", "",
                               RatInt(MinOf(temps)))>>
            ELSE <<>>)

\* lines 619-627
RainfallPattern(hdf, fdf) ==
    LET avg_daily_rain == ColumnMean(hdf, "rain_sum")
        forecast_days == Nunique(fdf, "time")
        avg_forecast_daily_rain ==
            IF forecast_days > 0
            THEN Rat(SumSeq([i \in 1..Len(fdf.rows) |-> fdf.rows[i].rain]),
                     forecast_days)
            ELSE RatZero
    IN  IF avg_daily_rain = NaN THEN <<>>
        ELSE IF RatLess(RatMul(avg_daily_rain[1], RatInt(2)),
                        avg_forecast_daily_rain)
        THEN <<Message("Higher than average rainfall expected in the upcoming period.")>>
        ELSE IF RatLess(avg_forecast_daily_rain,
                        RatMul(avg_daily_rain[1], Rat(1, 2)))
        THEN <<Message("Drier than average conditions expected in the upcoming period.")>>
        ELSE <<>>

SwingPoints == 3  \* forecast_df.iloc[:3], forecast_df.iloc[-3:]
SwingRows == 5    \* if len(forecast_df) > 5
SwingDegrees == 5 \* if abs(temp_change) > 5

\* lines 631-645
\* line 637: if len(forecast_df) > 5
LongEnoughForMeans(n) == n >= SwingPoints

LongEnough(n) == n > SwingRows

ForecastSummary(fdf) ==
    LET n == Len(fdf.rows)
        total == SumSeq([i \in 1..n |-> fdf.rows[i].rain])
    IN  <<Description("Forecast shows average temperatures of", "",
                      <<FormatSigned(ForecastMean(fdf, "temp", 1, n), 1),
                        RatInt(total)>>)>>
        \o (IF LongEnough(n)
            THEN LET temp_change ==
                         RatSub(ForecastMean(fdf, "temp", n - SwingPoints + 1, n),
                                ForecastMean(fdf, "temp", 1, SwingPoints))
                 IN  IF RatLess(RatInt(SwingDegrees), RatAbs(temp_change))
                     THEN <<Description("Temperatures are expected to be",
                                IF RatLess(RatZero, temp_change)
                                THEN "increasing" ELSE "decreasing", <<>>)>>
                     ELSE <<>>
            ELSE <<>>)

ForecastError ==
    Message("Unable to analyze forecast data due to an error.")

\* The dictionary returned.  A KeyError on a missing column is caught at line
\* 649: forecast_analysis becomes ForecastError and upcoming_patterns keeps
\* what was appended before the failure.
PredictUpcomingConditions(hdf, fdf) ==
    IF fdf.rows = <<>> \/ fdf.columns = {}
    THEN [forecast_analysis |->
              Message("No forecast data available for prediction."),
          upcoming_patterns |-> <<>>]
    ELSE IF ~({"temp", "rain", "humidity"} \subseteq fdf.columns)
    THEN [forecast_analysis |-> ForecastError, upcoming_patterns |-> <<>>]
    ELSE IF hdf.rows = <<>> \/ hdf.columns = {}
    THEN [forecast_analysis |->
              Message("Unable to compare forecast with historical averages due to insufficient historical data."),
          upcoming_patterns |-> ForecastSummary(fdf)]
    ELSE IF ~({"temp_avg", "temp_max"} \subseteq hdf.columns)
    THEN [forecast_analysis |-> ForecastError, upcoming_patterns |-> <<>>]
    ELSE
      LET avg_historical_temp == ColumnMean(hdf, "temp_avg")
          temp_diff ==
              IF avg_historical_temp = NaN THEN NaN
              ELSE Cell(RatSub(ForecastMean(fdf, "temp", 1, Len(fdf.rows)),
                               avg_historical_temp[1]))
          unusual == UnusualTemperatures(hdf, fdf)
      IN  IF "temp_min" \notin hdf.columns
             \/ ("rain_sum" \in hdf.columns /\ "time" \notin fdf.columns)
          THEN [forecast_analysis |-> ForecastError,
                upcoming_patterns |-> unusual]
          ELSE [forecast_analysis |->
                    Description("The upcoming period is forecasted to be",
                                TempComparison(temp_diff), <<>>),
                upcoming_patterns |->
                    unusual
                    \o (IF "rain_sum" \in hdf.columns
                        THEN RainfallPattern(hdf, fdf) ELSE <<>>)
                    \o ForecastSummary(fdf)]

\* whether the body raises inside the try
PredictFails(hdf, fdf) ==
    PredictUpcomingConditions(hdf, fdf).forecast_analysis = ForecastError

PredictUpcoming ==
    /\ calls < MaxCalls
    /\ predictions' = PredictUpcomingConditions(historical_df, forecast_df)
    /\ calls' = calls + 1
    /\ last_call' = "_predict_upcoming_conditions"
    /\ raised' = ExceptException(PredictFails(historical_df, forecast_df))
    /\ UNCHANGED <<historical_df, forecast_df, lat, current_month, climate_data,
                   current_season, crop_scores, sub_scores, recommendations,
                   crop_name, temp_score, rainfall_score, historical_data,
                   column, trend_per_month, trends, insights, results,
                   seasonal>>
    /\ UNCHANGED <<pattern_vars, service_vars, database_vars>>

MaxForecastDays == 2   \* calendar days a forecast covers
MaxDayPoints == 4      \* points of time forecast for one day
MaxPointRain == 3      \* mm of rain forecast for one point of time
MaxDailyRain == 4      \* mm of rain on each historical day
MaxDrift == 2          \* degrees by which the forecast warms per point,
                       \* unless it cools by 6 degrees per point

ForecastFrames ==
    {[columns |-> ForecastColumns,
      rows |-> [i \in 1..(d * p) |->
                   [time |-> <<((i - 1) \div p) + 1, 3 * ((i - 1) % p)>>,
                    temp |-> t + g * i, rain |-> r, humidity |-> 60]]] :
        d \in 0..MaxForecastDays, p \in 1..MaxDayPoints, r \in 0..MaxPointRain,
        t \in {13, 18}, g \in {0 - 6} \union 0..MaxDrift}

\* four days of history around 17.5 degrees with the same rain every day
HistoryFrames ==
    {Frame(IF n = 0 THEN {} ELSE HistoricalColumns, TRUE,
           [i \in 1..n |->
               [date |-> i, temp_avg |-> Cell(15 + i), temp_min |-> Cell(9 + i),
                temp_max |-> Cell(21 + i), rain_sum |-> Cell(r),
                humidity_avg |-> Cell(60)]]) :
        n \in {0, 4}, r \in 0..MaxDailyRain}

InitForecast ==
    /\ historical_df \in HistoryFrames
    /\ forecast_df \in ForecastFrames
    /\ lat = 45
    /\ current_month = 1
    /\ crop_name = "Corn"
    /\ NoCall
    /\ NoAnalysis
    /\ NoSimulation
    /\ NoDatabase

NextForecast == PredictUpcoming

SpecForecast == InitForecast /\ [][NextForecast]_vars

(***************************************************************************)
(* WeatherPatternAnalyzer.analyze_patterns.  The entry points are given    *)
(* the recommender's table; the analyzer reads the same table cell by      *)
(* cell.  datetime_index tells whether the index of the table is the       *)
(* DatetimeIndex named 'date' that process_historical_data sets.           *)
(***************************************************************************)
\* the table as the analyzer reads it: the rows are in the order of their
\* dates, and the two humidity and wind columns, which the climate summary
\* does not read, hold the 0 that process_historical_data puts in a column a
\* record does not carry
AsFrame(df) ==
    Frame(df.columns, df.datetime_index /\ df.rows # <<>>,
          SubSeq([i \in 1..Len(df.rows) |->
                     [name \in {"date", "humidity_avg", "wind_speed"}
                               \cup DOMAIN df.rows[i] |->
                         IF name = "date" THEN i
                         ELSE IF name \in DOMAIN df.rows[i]
                              THEN Cell(df.rows[i][name])
                              ELSE Cell(0)]],
                 1, Len(df.rows)))

AnalysisColumns ==
    {"temp_avg", "temp_min", "temp_max", "humidity_avg", "rain_sum", "wind_speed"}

\* fillna(method='bfill').fillna(method='ffill').fillna(0) on one column
FillNa(cells) ==
    [i \in 1..Len(cells) |->
        IF cells[i] # NaN THEN cells[i]
        ELSE IF \E j \in (i + 1)..Len(cells) : cells[j] # NaN
        THEN cells[MinOf({j \in (i + 1)..Len(cells) : cells[j] # NaN})]
        ELSE IF \E j \in 1..(i - 1) : cells[j] # NaN
        THEN cells[MaxOf({j \in 1..(i - 1) : cells[j] # NaN})]
        ELSE Cell(0)]

\* _prepare_data_for_analysis, lines 86-109: the six analysis columns, one of
\* zeros for each the table lacks, with no value missing
PrepareDataForAnalysis(df) ==
    LET filled ==
            [name \in AnalysisColumns |->
                IF name \in df.columns THEN FillNa(ColumnCells(df, name))
                ELSE [i \in 1..Len(df.rows) |-> Cell(0)]]
    IN  Frame(AnalysisColumns, FALSE,
              SubSeq([i \in 1..Len(df.rows) |->
                         [name \in AnalysisColumns |-> filled[name][i]]],
                     1, Len(df.rows)))

\* line 90: reset_index() puts the index back as a column under its name and
\* raises ValueError when the table already has a column of that name
PrepareFails(df) == df.datetime_index /\ "date" \in df.columns

RECURSIVE Ascending(_)
Ascending(S) ==
    IF S = {} THEN <<>>
    ELSE <<MinOf(S)>> \o Ascending(S \ {MinOf(S)})

\* lines 147-173: what is unusual about the row at position idx
UnusualFeatures(analysis_df, idx) ==
    LET point == analysis_df.rows[idx]
        above(name, text) ==
            IF RatLess(Quantile(ColumnCells(analysis_df, name), 95, 100)[1],
                       RatInt(point[name][1]))
            THEN <<Description(text, "", RatInt(point[name][1]))>>
            ELSE <<>>
        below(name, text) ==
            IF RatLess(RatInt(point[name][1]),
                       Quantile(ColumnCells(analysis_df, name), 5, 100)[1])
            THEN <<Description(text, "", RatInt(point[name][1]))>>
            ELSE <<>>
        found ==
            above("temp_max", "unusually high maximum temperature")
            \o below("temp_min", "unusually low minimum temperature")
            \o above("rain_sum", "unusually high rainfall")
            \o above("wind_speed", "unusually high wind speed")
            \o above("humidity_avg", "unusually high humidity")
            \o below("humidity_avg", "unusually low humidity")
    IN  IF found = <<>>
        THEN <<Message("unusual combination of weather conditions")>>
        ELSE found

\* lines 146-180: one description per flagged row, a description that is
\* already in the list left out
RECURSIVE AnomalyDescriptions(_, _, _)
AnomalyDescriptions(analysis_df, indices, descriptions) ==
    IF indices = <<>> THEN descriptions
    ELSE LET description ==
                 Description("Weather anomaly detected with", "",
                             UnusualFeatures(analysis_df, Head(indices)))
         IN  AnomalyDescriptions(analysis_df, Tail(indices),
                 IF \E k \in 1..Len(descriptions) : descriptions[k] = description
                 THEN descriptions
                 ELSE Append(descriptions, description))

TopAnomalies == 5     \* result['descriptions'][:5]

\* _detect_anomalies, given the set of rows the isolation forest flags
DetectAnomaliesUncapped(analysis_df, flagged) ==
    [indices |-> Ascending(flagged),
     descriptions |->
         AnomalyDescriptions(analysis_df, Ascending(flagged), <<>>)]

DetectAnomalies(analysis_df, flagged) ==
    LET all == AnomalyDescriptions(analysis_df, Ascending(flagged), <<>>)
    IN  [indices |-> Ascending(flagged),
         descriptions |->
             SubSeq(all, 1, IF Len(all) < TopAnomalies THEN Len(all)
                            ELSE TopAnomalies)]

MaxAnomalies == 1     \* rows the isolation forest flags in one table

\* The rows IsolationForest.fit_predict marks with -1 are the fitted model's
\* answer: any set of at most MaxAnomalies rows, each the first of a run of
\* equal rows, may be it.
Flaggings(analysis_df) ==
    LET rows == analysis_df.rows
        first == {i \in 1..Len(rows) : i = 1 \/ rows[i] # rows[i - 1]}
    IN  {S \in SUBSET first : Cardinality(S) <= MaxAnomalies}

MostClusters == 5     \* min(5, len(analysis_df) // 10)
ClusterRows == 10     \* ... if len(analysis_df) > 10 else 2
FewClusters == 2

\* line 212: the number of clusters asked of KMeans for a table of n rows
NClustersRounded(n) ==
    IF n > ClusterRows
    THEN (IF MostClusters < (n + ClusterRows \div 2) \div ClusterRows
          THEN MostClusters
          ELSE (n + ClusterRows \div 2) \div ClusterRows)
    ELSE FewClusters

NClusters(n) ==
    IF n > ClusterRows
    THEN (IF MostClusters < n \div ClusterRows THEN MostClusters
          ELSE n \div ClusterRows)
    ELSE FewClusters

\* The labels KMeans.fit_predict gives the rows are the fitted model's answer:
\* one label of 0..n_clusters-1 per row, equal rows getting equal labels.
Labelings(analysis_df, n_clusters) ==
    LET rows == analysis_df.rows
        kinds == {rows[i] : i \in 1..Len(rows)}
    IN  {SubSeq([i \in 1..Len(rows) |-> of[rows[i]]], 1, Len(rows)) :
            of \in [kinds -> 0..(n_clusters - 1)]}

\* The labelings followed when a whole analysis runs: the kinds of day get
\* successive labels in the order in which they first appear, starting at
\* the first label or at the last
OrderedLabelings(analysis_df, n_clusters) ==
    LET rows == analysis_df.rows
        first(i) == \A j \in 1..(i - 1) : rows[j] # rows[i]
        kind(i) == Cardinality({j \in 1..i : first(j)
                                   /\ \E m \in j..i : first(m)
                                                      /\ rows[m] = rows[i]})
    IN  {SubSeq([i \in 1..Len(rows) |-> (c + kind(i) - 1) % n_clusters],
                1, Len(rows)) : c \in {0, n_clusters - 1}}

\* lines 219-237: the days with label i, and what is reported of them; the
\* templated description is left out
ClusterInfo(analysis_df, cluster_labels, i) ==
    LET rows == analysis_df.rows
        members == Ascending({r \in 1..Len(rows) : cluster_labels[r] = i})
        mean(name) ==
            Rat(SumSeq(SubSeq([k \in 1..Len(members) |->
                                  rows[members[k]][name][1]],
                              1, Len(members))),
                Len(members))
    IN  [id |-> i,
         size |-> Len(members),
         percentage |-> RatMul(Rat(Len(members), Len(rows)), RatInt(100)),
         avg_temp |-> mean("temp_avg"),
         avg_rain |-> mean("rain_sum"),
         avg_humidity |-> mean("humidity_avg")]

\* lines 219-237: one entry per label whose cluster is not empty
RECURSIVE Clusters(_, _, _, _)
Clusters(analysis_df, cluster_labels, i, n_clusters) ==
    IF i >= n_clusters THEN <<>>
    ELSE (IF \E r \in 1..Len(analysis_df.rows) : cluster_labels[r] = i
          THEN <<ClusterInfo(analysis_df, cluster_labels, i)>>
          ELSE <<>>)
         \o Clusters(analysis_df, cluster_labels, i + 1, n_clusters)

\* _identify_patterns, lines 202-247.  KMeans raises ValueError when the
\* table has fewer rows than clusters are asked for; the except of line 245
\* then returns the patterns without clusters.
IdentifyPatterns(analysis_df, cluster_labels) ==
    LET n == Len(analysis_df.rows)
    IN  [clusters |->
            IF n < NClusters(n) THEN <<>>
            ELSE Clusters(analysis_df, cluster_labels, 0, NClusters(n)),
         seasonal_patterns |-> <<>>]

\* _generate_summary, lines 670-706: the parts joined into the summary
GenerateSummary(hdf, detected, found, upcoming) ==
    (IF hdf.rows = <<>> \/ hdf.columns = {} THEN <<>>
     ELSE LET avg_temp == ColumnMean(hdf, "temp_avg")
          IN  <<Description("Based on historical weather data, this region has an average temperature of",
                    "", IF avg_temp = NaN THEN NaN
                        ELSE FormatSigned(avg_temp[1], 1))>>
              \o (IF "rain_sum" \in hdf.columns
                  THEN <<Description("The area has received approximately", "",
                             RatInt(SumSeq(Present(ColumnCells(hdf,
                                                               "rain_sum")))))>>
                  ELSE <<>>))
    \o (IF found # <<>>
        THEN <<Description("Weather trends analysis reveals that", "",
                   SubSeq(found, 1, IF Len(found) > 1 THEN 2 ELSE 1))>>
        ELSE <<>>)
    \o <<upcoming.forecast_analysis>>
    \o (IF upcoming.upcoming_patterns # <<>>
        THEN <<upcoming.upcoming_patterns[1]>> ELSE <<>>)
    \o (IF detected.descriptions # <<>>
        THEN <<Description("Weather anomalies have been detected, including",
                           "", detected.descriptions[1])>>
        ELSE <<>>)
    \o <<Message("These weather patterns suggest farmers should monitor soil moisture levels closely and adjust irrigation schedules accordingly.")>>

\* line 673 raises KeyError on a table without temp_avg
SummaryFails(hdf) ==
    /\ ~(hdf.rows = <<>> \/ hdf.columns = {})
    /\ "temp_avg" \notin hdf.columns

\* lines 31-36: the dictionary analyze_patterns starts from
EmptyResults ==
    [summary |-> <<>>, anomalies |-> <<>>, trends |-> <<>>, patterns |-> <<>>]

\* lines 38-40: what an empty table gets
InsufficientData ==
    [EmptyResults EXCEPT
        !.summary = <<Message("Insufficient historical data for analysis.")>>]

\* lines 69-72: what the handler returns
AnalysisError ==
    [EmptyResults EXCEPT
        !.summary = <<Message("An error occurred during weather pattern analysis.")>>]

\* whether the body of the try of lines 42-67 raises
AnalyzeFails(df) == PrepareFails(df) \/ SummaryFails(df)

\* lines 58-67
CompileResults(df, detected, found, clustered, upcoming) ==
    [summary |-> GenerateSummary(df, detected, found, upcoming),
     anomalies |-> detected.descriptions,
     trends |-> found,
     patterns |-> <<clustered>>]

AnalyzePatterns ==
    /\ calls < MaxCalls
    /\ \E df \in {AsFrame(historical_df)} :
          IF IsEmpty(df)
          THEN /\ results' = InsufficientData
               /\ raised' = FALSE
               /\ UNCHANGED <<trends, predictions, pattern_vars>>
          ELSE IF PrepareFails(df)
          THEN /\ results' = AnalysisError
               /\ raised' = ExceptException(TRUE)
               /\ UNCHANGED <<trends, predictions, pattern_vars>>
          ELSE \E analysis_df \in {PrepareDataForAnalysis(df)} :
               \E found \in {AnalyzeTrendsOf(df)} :
               \E upcoming \in {PredictUpcomingConditions(df, forecast_df)} :
               \E cluster_labels \in
                     OrderedLabelings(analysis_df,
                                      NClusters(Len(analysis_df.rows))) :
               \E clustered \in
                     {IdentifyPatterns(analysis_df, cluster_labels)} :
               \E flagged \in Flaggings(analysis_df) :
               \E detected \in {DetectAnomalies(analysis_df, flagged)} :
                  /\ anomalies' = detected
                  /\ patterns' = clustered
                  /\ trends' = found
                  /\ predictions' = upcoming
                  /\ results' =
                        IF SummaryFails(df) THEN AnalysisError
                        ELSE CompileResults(df, detected, found, clustered,
                                            upcoming)
                  /\ raised' = ExceptException(SummaryFails(df))
    /\ calls' = calls + 1
    /\ last_call' = "analyze_patterns"
    /\ UNCHANGED <<historical_df, forecast_df, lat, current_month, climate_data,
                   current_season, crop_scores, sub_scores, recommendations,
                   crop_name, temp_score, rainfall_score, historical_data,
                   column, trend_per_month, insights, seasonal>>
    /\ UNCHANGED <<service_vars, database_vars>>

(***************************************************************************)
(* WeatherPatternAnalyzer.get_seasonal_recommendations, the definition of  *)
(* lines 708-869, which replaces the one of lines 388-519.  Its body is in *)
(* no try.                                                                 *)
(***************************************************************************)
\* lines 726-836: the summary of each season; any other name is taken as Fall
SeasonSummary(season) ==
    IF season = "Winter"
    THEN "Winter planning focuses on soil preparation, equipment maintenance, and planning for spring planting. Review your crop rotation plans and order seeds well in advance. Consider conducting soil tests to determine nutrient needs for spring."
    ELSE IF season = "Spring"
    THEN "Spring is the critical planting season. Prepare your fields once soil temperatures reach appropriate levels, being careful not to work wet soil. Monitor for early season pests as temperatures warm and implement your integrated pest management strategies."
    ELSE IF season = "Summer"
    THEN "Summer is focused on crop management, irrigation, and pest control. Monitor soil moisture regularly and adjust irrigation schedules based on weather conditions and crop needs. Stay vigilant for pest and disease pressures which increase in warm weather."
    ELSE "Fall is harvest season and preparation for the following year. Focus on timely harvesting, proper crop storage, and establishment of winter cover crops. Perform post-harvest soil management practices and evaluate the season's performance for future planning."

\* lines 733-836: the tasks of the three months of each season
MonthlyTasks(season) ==
    IF season = "Winter"
    THEN [December |->
              <<"Maintain drainage systems to prevent waterlogging",
                "Service farm equipment while activity is low",
                "Analyze previous season's data and plan crop rotations",
                "Check stored crops for signs of spoilage or pests">>,
          January |->
              <<"Order seeds and supplies for spring planting",
                "Conduct soil tests to determine spring fertilizer needs",
                "Repair fences, buildings, and other infrastructure",
                "Monitor overwintering crops for frost damage">>,
          February |->
              <<"Start seedlings indoors for early spring crops",
                "Begin pruning fruit trees before bud break",
                "Apply winter fertilizers if ground is not frozen",
                "Plan irrigation system maintenance before spring">>]
    ELSE IF season = "Spring"
    THEN [March |->
              <<"Prepare seedbeds once soil has dried sufficiently",
                "Apply pre-planting fertilizers based on soil tests",
                "Set up weather monitoring stations for the growing season",
                "Begin early season weed control measures">>,
          April |->
              <<"Plant main season crops when soil temperature is optimal",
                "Implement irrigation system as needed for germination",
                "Monitor for early season pests and diseases",
                "Apply post-emergence herbicides as needed">>,
          May |->
              <<"Complete planting of all warm-season crops",
                "Thin seedlings to appropriate spacing",
                "Begin regular scouting for pests and diseases",
                "Apply side-dress fertilizers for early planted crops">>]
    ELSE IF season = "Summer"
    THEN [June |->
              <<"Implement efficient irrigation scheduling based on crop needs",
                "Monitor for insect pests with increased activity in warm weather",
                "Apply foliar fertilizers if tissue tests indicate deficiencies",
                "Prepare for harvest of early season crops">>,
          July |->
              <<"Maintain consistent irrigation during peak water demand",
                "Continue regular pest and disease monitoring",
                "Apply fungicides preventatively during periods of high humidity",
                "Plan for cover crop seeding after early harvests">>,
          August |->
              <<"Monitor crops for signs of heat stress",
                "Adjust irrigation to account for any rainfall",
                "Prepare harvesting equipment for upcoming harvest season",
                "Begin soil preparation for fall planted crops">>]
    ELSE [September |->
              <<"Harvest crops at optimal maturity to maximize quality",
                "Plant cover crops in harvested fields to prevent erosion",
                "Conduct soil testing after harvest to plan winter amendments",
                "Clean and prepare storage facilities">>,
          October |->
              <<"Complete main crop harvest before frost damage",
                "Apply fall fertilizers and soil amendments",
                "Plant winter grains if part of rotation",
                "Winterize irrigation systems to prevent freeze damage">>,
          November |->
              <<"Finish any remaining harvest activities",
                "Complete fall tillage operations where appropriate",
                "Apply winter weed control measures",
                "Analyze yield data and begin planning for next season">>]

\* src/app.py line 578: the season handed in
SeasonOfMonth(month) ==
    IF month \in {12, 1, 2} THEN "Winter"
    ELSE IF month \in {3, 4, 5} THEN "Spring"
    ELSE IF month \in {6, 7, 8} THEN "Summer"
    ELSE "Fall"

\* lines 839-852: the sentence one trend adds to the summary; trend.lower()
\* holds "temperature has been increasing" exactly when the trend is the
\* temperature sentence of _analyze_trends with that direction
TrendAdvice(trend) ==
    IF trend.text = "Temperature has been" /\ trend.direction = "increasing"
    THEN <<" Due to the warming trend, consider selecting heat-tolerant crop varieties and adjusting planting dates accordingly.">>
    ELSE IF trend.text = "Temperature has been" /\ trend.direction = "decreasing"
    THEN <<" With the cooling trend observed, be prepared for potential early frosts and consider cold-hardy varieties.">>
    ELSE IF trend.text = "Precipitation has been" /\ trend.direction = "increasing"
    THEN <<" The increasing precipitation trend suggests investing in improved drainage systems and raising beds for crops sensitive to waterlogging.">>
    ELSE IF trend.text = "Precipitation has been" /\ trend.direction = "decreasing"
    THEN <<" With decreasing precipitation levels, prioritize drought-resistant crop varieties and efficient irrigation methods.">>
    ELSE <<>>

RECURSIVE TrendAdvices(_)
TrendAdvices(found) ==
    IF found = <<>> THEN <<>>
    ELSE TrendAdvice(Head(found)) \o TrendAdvices(Tail(found))

HeatDegrees == 32     \* historical_df['temp_max'] > 32
HeatDays == 10        \* heat_days > 10

\* (historical_df[name] < 0).sum() and (historical_df[name] > 32).sum()
DaysBelow(df, name, degrees) ==
    Cardinality({i \in 1..Len(df.rows) :
                    df.rows[i][name] # NaN /\ df.rows[i][name][1] < degrees})

DaysAbove(df, name, degrees) ==
    Cardinality({i \in 1..Len(df.rows) :
                    df.rows[i][name] # NaN /\ df.rows[i][name][1] > degrees})

\* lines 857-858 and 865-866: the month whose list a task is appended to
LateFrost(season, df) ==
    /\ ~(df.rows = <<>> \/ df.columns = {})
    /\ "temp_min" \in df.columns
    /\ season = "Spring"
    /\ DaysBelow(df, "temp_min", 0) > 0

\* lines 862-867: more than 10 days above 32 degrees, in Summer
HeatStressInclusive(season, df) ==
    /\ ~(df.rows = <<>> \/ df.columns = {})
    /\ "temp_max" \in df.columns
    /\ season = "Summer"
    /\ DaysAbove(df, "temp_max", HeatDegrees) >= HeatDays

HeatStress(season, df) ==
    /\ ~(df.rows = <<>> \/ df.columns = {})
    /\ "temp_max" \in df.columns
    /\ season = "Summer"
    /\ DaysAbove(df, "temp_max", HeatDegrees) > HeatDays

\* lines 860 and 867 raise KeyError when the season's tasks have no list for
\* the month
SeasonalFails(season, df) ==
    \/ LateFrost(season, df) /\ "April" \notin DOMAIN MonthlyTasks(season)
    \/ HeatStress(season, df) /\ "July" \notin DOMAIN MonthlyTasks(season)

\* the dictionary returned; the summary is its first text and what the trends
\* add to it
GetSeasonalRecommendationsOf(season, found, df) ==
    LET tasks == MonthlyTasks(season)
    IN  [summary |-> <<SeasonSummary(season)>> \o TrendAdvices(found),
         monthly_tasks |->
             [month \in DOMAIN tasks |->
                 IF month = "April" /\ LateFrost(season, df)
                 THEN Append(tasks[month],
                          "Be prepared for potential late frosts based on historical patterns")
                 ELSE IF month = "July" /\ HeatStress(season, df)
                 THEN Append(tasks[month],
                          "Implement heat stress management strategies during historically high-temperature periods")
                 ELSE tasks[month]]]

\* src/app.py lines 581-585: called after analyze_patterns, with the trends
\* it returned
GetSeasonalRecommendations ==
    /\ calls < MaxCalls
    /\ results # <<>>
    /\ \E season \in {SeasonOfMonth(current_month)} :
       \E df \in {AsFrame(historical_df)} :
          /\ seasonal' = GetSeasonalRecommendationsOf(season, results.trends, df)
          /\ raised' = SeasonalFails(season, df)
    /\ calls' = calls + 1
    /\ last_call' = "get_seasonal_recommendations"
    /\ UNCHANGED <<historical_df, forecast_df, lat, current_month, climate_data,
                   current_season, crop_scores, sub_scores, recommendations,
                   crop_name, temp_score, rainfall_score, historical_data,
                   column, trend_per_month, trends, predictions, insights,
                   results>>
    /\ UNCHANGED <<pattern_vars, service_vars, database_vars>>

(***************************************************************************)
(* The entry points of the dashboard on one pair of tables                 *)
(***************************************************************************)
\* a table with or without the index process_historical_data sets
Indexed(df, datetime) ==
    [columns |-> df.columns, rows |-> df.rows, dry_day |-> df.dry_day,
     dry_spell |-> df.dry_spell, datetime_index |-> datetime]

\* a table that lacks the columns named
Without(df, names) ==
    [df EXCEPT !.columns = @ \ names,
               !.rows = [i \in 1..Len(df.rows) |->
                            [name \in DOMAIN df.rows[i] \ names |->
                                df.rows[i][name]]]]

\* ten mild days with rain, a heat wave without, and a week of frost
YearTable == Table(Rep(10, MildDay) \o Rep(15, HotDay) \o Rep(7, FrostDay))

\* the table with a plain index, which _prepare_data_for_analysis accepts
PlainTable == Indexed(YearTable, FALSE)

EntryTables ==
    {Indexed(EmptyTable, FALSE),
     Indexed(Table(Rep(5, MildDay)), TRUE),
     Indexed(YearTable, TRUE),
     PlainTable,
     Indexed(Without(YearTable, {"date"}), FALSE),
     Indexed(Without(YearTable, {"temp_avg"}), FALSE),
     Indexed(Without(YearTable, {"temp_min", "temp_max"}), FALSE),
     Indexed(Without(YearTable, {"rain_sum"}), FALSE)}

ForecastRow(day, hour, temp, rain) ==
    [time |-> <<day, hour>>, temp |-> temp, rain |-> rain, humidity |-> 60]

\* three days of two points each
FullForecast ==
    [columns |-> ForecastColumns,
     rows |-> <<ForecastRow(1, 0, 14, 0), ForecastRow(1, 12, 22, 3),
                ForecastRow(2, 0, 15, 0), ForecastRow(2, 12, 24, 0),
                ForecastRow(3, 0, 19, 2), ForecastRow(3, 12, 30, 0)>>]

EntryForecasts ==
    {EmptyForecast, FullForecast, Without(FullForecast, {"temp"}),
     Without(FullForecast, {"time"})}

\* one month of each season of src/app.py line 578
EntryMonths == {1, 4, 7, 10}

\* The full table with every forecast in summer and with the full forecast
\* in every season; every other table in summer, with a forecast that has its
\* temperatures and one that has not.
EntryCases ==
    {c \in EntryTables \X EntryForecasts \X EntryMonths :
        \/ c[1] = PlainTable /\ (c[2] = FullForecast \/ c[3] = 7)
        \/ /\ c[2] \in {FullForecast, Without(FullForecast, {"temp"})}
           /\ c[3] = 7}

InitEntry ==
    /\ \E c \in EntryCases :
          /\ historical_df = c[1]
          /\ forecast_df = c[2]
          /\ current_month = c[3]
    /\ lat = 45
    /\ crop_name = "Corn"
    /\ NoCall
    /\ NoAnalysis
    /\ NoSimulation
    /\ NoDatabase

NextEntry ==
    \/ RecommendCrops
    \/ GetCropInsights
    \/ AnalyzePatterns
    \/ GetSeasonalRecommendations

SpecEntry == InitEntry /\ [][NextEntry]_vars

(***************************************************************************)
(* WeatherPatternAnalyzer._identify_patterns on a prepared table           *)
(***************************************************************************)
MaxPatternRows == 51   \* rows of the longest table given to it

\* a day of a prepared table (_prepare_data_for_analysis): the six columns
AnalysisDay(avg, mn, mx, humidity, rain, wind) ==
    [temp_avg |-> Cell(avg), temp_min |-> Cell(mn), temp_max |-> Cell(mx),
     humidity_avg |-> Cell(humidity), rain_sum |-> Cell(rain),
     wind_speed |-> Cell(wind)]

CoolWetDay == AnalysisDay(8, 3, 13, 85, 12, 4)
HotDryDay == AnalysisDay(29, 21, 37, 30, 0, 2)
WindyDay == AnalysisDay(17, 11, 22, 55, 1, 9)

\* n days: cool wet days, then hot dry days, and a windy last day
PatternFrames ==
    {Frame(AnalysisColumns, FALSE,
           SubSeq([i \in 1..n |->
                      IF i <= a THEN CoolWetDay
                      ELSE IF i < n \/ n < 3 THEN HotDryDay
                      ELSE WindyDay],
                  1, n)) :
        n \in 1..MaxPatternRows, a \in {0, 1, 7}}

\* one call of _identify_patterns, with some answer of the fitted model
IdentifyPatternsCall ==
    /\ last_call = "none"
    /\ \E cluster_labels \in
             Labelings(historical_df, NClusters(Len(historical_df.rows))) :
          patterns' = IdentifyPatterns(historical_df, cluster_labels)
    /\ last_call' = "_identify_patterns"
    /\ UNCHANGED <<recommender_vars, analysis_vars, anomalies, service_vars,
                   database_vars>>

InitPatterns ==
    /\ historical_df \in PatternFrames
    /\ forecast_df = EmptyForecast
    /\ lat = 45
    /\ current_month = 1
    /\ crop_name = "Corn"
    /\ NoCall
    /\ NoAnalysis
    /\ NoSimulation
    /\ NoDatabase

NextPatterns == IdentifyPatternsCall

SpecPatterns == InitPatterns /\ [][NextPatterns]_vars

(***************************************************************************)
(* CropRecommender.get_crop_insights on the tables of the recommender      *)
(***************************************************************************)
InitInsights ==
    /\ historical_df \in RecommendTables
    /\ forecast_df \in ForecastTables
    /\ lat = 45
    /\ current_month = 7
    /\ crop_name = "Corn"
    /\ NoCall
    /\ NoAnalysis
    /\ NoSimulation
    /\ NoDatabase

NextInsights == GetCropInsights

SpecInsights == InitInsights /\ [][NextInsights]_vars

(***************************************************************************)
(* The planning calendar: analyze_patterns, then                           *)
(* get_seasonal_recommendations, on a processed table in any month         *)
(***************************************************************************)
MaxHotDays == 11      \* days above 32 degrees C in a table of the calendar
MaxFrostNights == 1   \* days below 0 degrees C in it

SeasonTables ==
    {Indexed(EmptyTable, FALSE)}
    \union {Indexed(Table(Rep(20, MildDay) \o Rep(b, HotDay)
                          \o Rep(c, FrostDay)), TRUE) :
               b \in 0..MaxHotDays, c \in 0..MaxFrostNights}
    \union {Indexed(Without(YearTable, {"temp_min", "temp_max"}), TRUE)}

InitSeasonal ==
    /\ historical_df \in SeasonTables
    /\ forecast_df = FullForecast
    /\ lat = 45
    /\ current_month \in Months
    /\ crop_name = "Corn"
    /\ NoCall
    /\ NoAnalysis
    /\ NoSimulation
    /\ NoDatabase

NextSeasonal ==
    \/ AnalyzePatterns
    \/ GetSeasonalRecommendations

SpecSeasonal == InitSeasonal /\ [][NextSeasonal]_vars

(***************************************************************************)
(* WeatherPatternAnalyzer._detect_anomalies on a prepared table            *)
(***************************************************************************)
MaxAnomalyDays == 8   \* rows of the longest table given to it

\* an ordinary day, then days with one extreme value each
OrdinaryDay == AnalysisDay(17, 11, 22, 55, 1, 3)

AnomalyDay(i) ==
    CASE i % 8 = 2 -> AnalysisDay(30, 11, 40, 55, 1, 3)
      [] i % 8 = 3 -> AnalysisDay(5, 0 - 5, 22, 55, 1, 3)
      [] i % 8 = 4 -> AnalysisDay(17, 11, 22, 55, 50, 3)
      [] i % 8 = 5 -> AnalysisDay(17, 11, 22, 55, 1, 12)
      [] i % 8 = 6 -> AnalysisDay(17, 11, 22, 95, 1, 3)
      [] i % 8 = 7 -> AnalysisDay(17, 11, 22, 10, 1, 3)
      [] OTHER -> OrdinaryDay

AnomalyFrames ==
    {Frame(AnalysisColumns, FALSE,
           SubSeq([i \in 1..n |-> AnomalyDay(i)], 1, n)) :
        n \in 1..MaxAnomalyDays}

\* one call of _detect_anomalies, with some answer of the isolation forest
DetectAnomaliesCall ==
    /\ last_call = "none"
    /\ \E flagged \in SUBSET (1..Len(historical_df.rows)) :
          anomalies' = DetectAnomalies(historical_df, flagged)
    /\ last_call' = "_detect_anomalies"
    /\ UNCHANGED <<recommender_vars, analysis_vars, patterns, service_vars,
                   database_vars>>

InitAnomalies ==
    /\ historical_df \in AnomalyFrames
    /\ forecast_df = EmptyForecast
    /\ lat = 45
    /\ current_month = 1
    /\ crop_name = "Corn"
    /\ NoCall
    /\ NoAnalysis
    /\ NoSimulation
    /\ NoDatabase

NextAnomalies == DetectAnomaliesCall

SpecAnomalies == InitAnomalies /\ [][NextAnomalies]_vars

(***************************************************************************)
(* database.py: the saved_locations table.  A table is the sequence of its *)
(* rows in the order of their primary keys, which count from 1; no row is  *)
(* ever deleted.  Calls run one after another, each in its own session.    *)
(***************************************************************************)
MaxLocations == 3   \* rows of the saved_locations table

Users == {1, 2}
LocationNames == {"Home", "North field"}

\* class SavedLocation, lines 22-32
SavedLocation(id, user_id, name, latitude, longitude, is_default) ==
    [id |-> id, user_id |-> user_id, name |-> name, latitude |-> latitude,
     longitude |-> longitude, is_default |-> is_default]

\* save_location, lines 142-147: unset the existing defaults of the user
UnsetEveryDefault(rows, user_id) ==
    [i \in 1..Len(rows) |-> [rows[i] EXCEPT !.is_default = FALSE]]

UnsetDefaults(rows, user_id) ==
    [i \in 1..Len(rows) |->
        IF rows[i].user_id = user_id /\ rows[i].is_default
        THEN [rows[i] EXCEPT !.is_default = FALSE]
        ELSE rows[i]]

\* save_location, lines 140-157: the table after the commit
SaveLocationOf(rows, user_id, name, latitude, longitude, is_default) ==
    Append(IF is_default THEN UnsetDefaults(rows, user_id) ELSE rows,
           SavedLocation(Len(rows) + 1, user_id, name, latitude, longitude,
                         is_default))

\* get_saved_locations, lines 171-188
GetSavedLocations(rows, user_id) ==
    SelectSeq(rows, LAMBDA loc : loc.user_id = user_id)

\* get_default_location, lines 190-208: the first default of the user, or
\* None, which is <<>>
GetDefaultLocation(rows, user_id) ==
    LET defaults == SelectSeq(rows, LAMBDA loc : loc.user_id = user_id
                                                  /\ loc.is_default)
    IN  IF defaults = <<>> THEN <<>>
        ELSE [id |-> defaults[1].id, name |-> defaults[1].name,
              latitude |-> defaults[1].latitude,
              longitude |-> defaults[1].longitude,
              is_default |-> defaults[1].is_default]

\* save_location, lines 136-169
SaveLocation ==
    /\ Len(saved_locations) < MaxLocations
    /\ \E user_id \in Users, name \in LocationNames, is_default \in BOOLEAN :
          /\ saved_locations' =
                SaveLocationOf(saved_locations, user_id, name, 45, 9,
                               is_default)
          /\ location_data' =
                [id |-> Len(saved_locations) + 1, name |-> name,
                 latitude |-> 45, longitude |-> 9,
                 is_default |-> is_default]
    /\ last_call' = "save_location"
    /\ UNCHANGED <<recommender_vars, analysis_vars, pattern_vars, service_vars,
                   soil_moisture_sensors, soil_moisture_readings>>

InitLocations ==
    /\ historical_df = EmptyTable
    /\ forecast_df = EmptyForecast
    /\ lat = 45
    /\ current_month = 1
    /\ crop_name = "Corn"
    /\ NoCall
    /\ NoAnalysis
    /\ NoSimulation
    /\ NoDatabase

NextLocations == SaveLocation

SpecLocations == InitLocations /\ [][NextLocations]_vars

(***************************************************************************)
(* soil_moisture_service.py: the simulation of the sensors.  One thread    *)
(* starts and stops the simulation, one thread collects the readings, and  *)
(* every start_simulation that goes through starts a worker thread.  A     *)
(* worker is "unborn" before its start, then at "setup" (lines 74-122), at *)
(* "while" (line 125), at "body" (lines 126-197), at "sleep" (line 201)    *)
(* and at last "done".  The measured values, drawn at random, are left     *)
(* out of a reading; its id tells it from every other reading.             *)
(***************************************************************************)
MaxCommands == 3   \* start_simulation and stop_simulation calls made
MaxReadings == 3   \* readings recorded by the workers
MaxItems == 2      \* max_items given to get_latest_readings

Threads == 1..MaxWorkers

\* get_soil_moisture_sensors, database.py lines 358-380
GetSoilMoistureSensors(rows, user_id) ==
    SelectSeq(rows, LAMBDA sensor : sensor.user_id = user_id)

\* _simulation_worker, lines 77-97: a sensor for each of the first 3 saved
\* locations of the user (register_soil_moisture_sensor, database.py lines
\* 315-356); the sensor_id holds the time of the setup, here the thread
RegisterSensors(rows, locations, user_id, thread) ==
    LET used == IF Len(locations) < 3 THEN Len(locations) ELSE 3
    IN  rows \o [i \in 1..used |->
                    [id |-> Len(rows) + i, user_id |-> user_id,
                     sensor_id |-> <<i, thread>>,
                     name |-> <<"Soil Sensor", i, locations[i].name>>,
                     location_name |-> locations[i].name,
                     field_area |-> <<"Field", i>>]]

\* lines 176-191: the reading recorded (record_soil_moisture_reading,
\* database.py lines 436-468) with the context of its sensor
Reading(id, sensor) ==
    [id |-> id, sensor_id |-> sensor.id, sensor_name |-> sensor.name,
     location_name |-> sensor.location_name,
     field_area |-> sensor.field_area]

\* start_simulation, lines 40-57
StartSimulation ==
    /\ caller = "idle"
    /\ calls < MaxCommands
    /\ IF simulation_running
       THEN /\ started' = FALSE
            /\ UNCHANGED <<simulation_running, simulation_thread, worker>>
       ELSE \E thread \in Threads :
               /\ worker[thread] = "unborn"
               /\ \A other \in 1..(thread - 1) : worker[other] # "unborn"
               /\ simulation_running' = TRUE
               /\ simulation_thread' = thread
               /\ worker' = [worker EXCEPT ![thread] = "setup"]
               /\ started' = TRUE
    /\ calls' = calls + 1
    /\ last_call' = "start_simulation"
    /\ UNCHANGED <<historical_df, forecast_df, lat, current_month,
                   climate_data, current_season, crop_scores, sub_scores,
                   recommendations, crop_name, temp_score, rainfall_score,
                   raised, analysis_vars, pattern_vars, data_queue, caller,
                   consumer, latest_readings, enqueued, delivered,
                   database_vars>>

\* stop_simulation, lines 59-62: the flag is lowered before the join
StopSimulation ==
    /\ caller = "idle"
    /\ calls < MaxCommands
    /\ simulation_running' = FALSE
    /\ caller' = IF simulation_thread # 0 THEN "join" ELSE "idle"
    /\ calls' = calls + 1
    /\ last_call' = "stop_simulation"
    /\ UNCHANGED <<historical_df, forecast_df, lat, current_month,
                   climate_data, current_season, crop_scores, sub_scores,
                   recommendations, crop_name, temp_score, rainfall_score,
                   raised, analysis_vars, pattern_vars, simulation_thread,
                   data_queue, worker, consumer, started, latest_readings,
                   enqueued, delivered, database_vars>>

\* stop_simulation, lines 63-64: join(timeout=1.0) returns when the worker
\* has ended or when the second is over, whichever comes first; the worker
\* may then still be anywhere, a sleep alone lasting 1 to 5 seconds
JoinThread ==
    /\ caller = "join"
    /\ simulation_thread' = 0
    /\ caller' = "idle"
    /\ UNCHANGED <<recommender_vars, last_call, analysis_vars, pattern_vars,
                   simulation_running, data_queue, worker, consumer, started,
                   latest_readings, enqueued, delivered, database_vars>>

\* _simulation_worker, lines 74-122
WorkerSetup(thread) ==
    /\ worker[thread] = "setup"
    /\ \E user_id \in {1} :
       \E sensors \in
             {IF GetSoilMoistureSensors(soil_moisture_sensors, user_id) = <<>>
              THEN RegisterSensors(soil_moisture_sensors,
                       GetSavedLocations(saved_locations, user_id), user_id,
                       thread)
              ELSE soil_moisture_sensors} :
          /\ soil_moisture_sensors' = sensors
          /\ IF GetSoilMoistureSensors(sensors, user_id) = <<>>
             THEN /\ simulation_running' = FALSE
                  /\ worker' = [worker EXCEPT ![thread] = "done"]
             ELSE /\ worker' = [worker EXCEPT ![thread] = "while"]
                  /\ UNCHANGED simulation_running
    /\ UNCHANGED <<recommender_vars, last_call, analysis_vars, pattern_vars,
                   simulation_thread, data_queue, caller, consumer, started,
                   latest_readings, enqueued, delivered,
                   soil_moisture_readings, saved_locations, location_data>>

\* line 125: while self.simulation_running
WorkerWhile(thread) ==
    /\ worker[thread] = "while"
    /\ worker' = [worker EXCEPT ![thread] =
                     IF simulation_running THEN "body" ELSE "done"]
    /\ UNCHANGED <<recommender_vars, last_call, analysis_vars, pattern_vars,
                   simulation_running, simulation_thread, data_queue, caller,
                   consumer, started, latest_readings, enqueued, delivered,
                   database_vars>>

\* lines 126-197: a reading of one of the sensors is recorded and put on the
\* queue
WorkerBody(thread) ==
    /\ worker[thread] = "body"
    /\ Len(soil_moisture_readings) < MaxReadings
    /\ \E sensors \in {GetSoilMoistureSensors(soil_moisture_sensors, 1)} :
       \E s \in 1..Len(sensors) :
       \E reading \in {Reading(Len(soil_moisture_readings) + 1, sensors[s])} :
          /\ soil_moisture_readings' =
                Append(soil_moisture_readings,
                       [id |-> reading.id, sensor_id |-> reading.sensor_id])
          /\ data_queue' = Append(data_queue, reading)
          /\ enqueued' = Append(enqueued, reading)
    /\ worker' = [worker EXCEPT ![thread] = "sleep"]
    /\ UNCHANGED <<recommender_vars, last_call, analysis_vars, pattern_vars,
                   simulation_running, simulation_thread, caller, consumer,
                   started, latest_readings, delivered, soil_moisture_sensors,
                   saved_locations, location_data>>

\* line 201: the sleep of 1 to 5 seconds ends
WorkerWake(thread) ==
    /\ worker[thread] = "sleep"
    /\ worker' = [worker EXCEPT ![thread] = "while"]
    /\ UNCHANGED <<recommender_vars, last_call, analysis_vars, pattern_vars,
                   simulation_running, simulation_thread, data_queue, caller,
                   consumer, started, latest_readings, enqueued, delivered,
                   database_vars>>

\* line 214: range(min(max_items, self.data_queue.qsize()))
LoopCountOfQueue(max_items, qsize) == qsize

LoopCount(max_items, qsize) ==
    IF max_items < qsize THEN max_items ELSE qsize

\* get_latest_readings, lines 213-214: the number of rounds is fixed
GetLatestReadings ==
    /\ consumer.pc = "idle"
    /\ \E max_items \in 1..MaxItems :
          consumer' = [pc |-> "for", max_items |-> max_items,
                       left |-> LoopCount(max_items, Len(data_queue)),
                       readings |-> <<>>]
    /\ UNCHANGED <<recommender_vars, last_call, analysis_vars, pattern_vars,
                   simulation_running, simulation_thread, data_queue, worker,
                   caller, started, latest_readings, enqueued, delivered,
                   database_vars>>

\* lines 214-219: another round if one is left and the queue is not empty,
\* else the readings are returned
NextRound ==
    /\ consumer.pc = "for"
    /\ IF consumer.left > 0 /\ data_queue # <<>>
       THEN /\ consumer' = [consumer EXCEPT !.pc = "get"]
            /\ UNCHANGED <<latest_readings, delivered>>
       ELSE /\ consumer' = [consumer EXCEPT !.pc = "idle"]
            /\ latest_readings' = consumer.readings
            /\ delivered' = delivered \o consumer.readings
    /\ UNCHANGED <<recommender_vars, last_call, analysis_vars, pattern_vars,
                   simulation_running, simulation_thread, data_queue, worker,
                   caller, started, enqueued, database_vars>>

\* line 216: Queue.get() waits while the queue is empty
QueueGet ==
    /\ consumer.pc = "get"
    /\ data_queue # <<>>
    /\ consumer' = [consumer EXCEPT !.pc = "for", !.left = @ - 1,
                                    !.readings = Append(@, Head(data_queue))]
    /\ data_queue' = Tail(data_queue)
    /\ UNCHANGED <<recommender_vars, last_call, analysis_vars, pattern_vars,
                   simulation_running, simulation_thread, worker, caller,
                   started, latest_readings, enqueued, delivered,
                   database_vars>>

\* the user has no saved location, or one
SimulationLocations ==
    {<<>>, <<SavedLocation(1, 1, "Home", 45, 9, TRUE)>>}

InitSimulation ==
    /\ historical_df = EmptyTable
    /\ forecast_df = EmptyForecast
    /\ lat = 45
    /\ current_month = 1
    /\ crop_name = "Corn"
    /\ NoCall
    /\ NoAnalysis
    /\ NoSimulation
    /\ soil_moisture_sensors = <<>>
    /\ soil_moisture_readings = <<>>
    /\ saved_locations \in SimulationLocations
    /\ location_data = <<>>

NextSimulation ==
    \/ StartSimulation
    \/ StopSimulation
    \/ JoinThread
    \/ \E thread \in Threads :
          \/ WorkerSetup(thread)
          \/ WorkerWhile(thread)
          \/ WorkerBody(thread)
          \/ WorkerWake(thread)
    \/ GetLatestReadings
    \/ NextRound
    \/ QueueGet

SpecSimulation == InitSimulation /\ [][NextSimulation]_vars

(***************************************************************************)
(* Properties of the scoring functions                                     *)
(***************************************************************************)
ScoredCrop == crop_data[crop_name]
TemperatureScored == temp_score # <<>>
RainfallScored == rainfall_score # <<>>

\* no temperature lies both in the observed range and in the crop's tolerance
NoOverlap ==
    (climate_data.min_temp..climate_data.max_temp)
        \cap (ScoredCrop.min_temp..ScoredCrop.max_temp) = {}

\* C4: the temperature score lies in [0.1, 1.0], and is exactly 0.1 when the
\* observed temperature range does not overlap the crop's tolerance.
C4_TemperatureScoreRange ==
    TemperatureScored =>
        /\ RatLeq(Rat(1, 10), temp_score)
        /\ RatLeq(temp_score, RatOne)
        /\ NoOverlap => temp_score = Rat(1, 10)

C4_Witness ==
    /\ TemperatureScored
    /\ NoOverlap
    /\ climate_data.max_temp < ScoredCrop.min_temp

InRainRange ==
    /\ ScoredCrop.min_rainfall <= climate_data.annual_rainfall
    /\ climate_data.annual_rainfall <= ScoredCrop.max_rainfall

\* C5: for rainfall >= 0 the rainfall score lies in [0.3, 1.0], and in
\* [0.8, 1.0] when the rainfall lies within the crop's rainfall range.
C5_RainfallScoreRange ==
    RainfallScored =>
        /\ RatLeq(Rat(3, 10), rainfall_score)
        /\ RatLeq(rainfall_score, RatOne)
        /\ InRainRange => RatLeq(Rat(8, 10), rainfall_score)

C5_Witness ==
    /\ RainfallScored
    /\ InRainRange
    /\ RatLess(rainfall_score, RatOne)

AtMidpoint ==
    2 * climate_data.annual_rainfall
        = ScoredCrop.min_rainfall + ScoredCrop.max_rainfall

\* C7: at the midpoint of the crop's rainfall range the score is 1.0, and no
\* rainfall within the range scores higher than 1.0.
C7_MidpointScoresHighest ==
    RainfallScored =>
        /\ AtMidpoint => rainfall_score = RatOne
        /\ InRainRange => RatLeq(rainfall_score, RatOne)

C7_Witness == RainfallScored /\ AtMidpoint /\ rainfall_score = RatOne

AtOptimum ==
    /\ climate_data.avg_temp = RatInt(ScoredCrop.optimal_temp)
    /\ ScoredCrop.min_temp <= climate_data.min_temp
    /\ climate_data.max_temp <= ScoredCrop.max_temp

\* C8: when avg_temp is the crop's optimal temperature and the observed
\* extremes lie inside the crop's tolerance, the temperature score is 1.0.
C8_OptimumScoresOne == TemperatureScored /\ AtOptimum => temp_score = RatOne

C8_Witness ==
    /\ TemperatureScored
    /\ AtOptimum
    /\ climate_data.min_temp < climate_data.max_temp

BelowMinimum ==
    /\ ScoredCrop.min_rainfall <= 2 * climate_data.annual_rainfall
    /\ climate_data.annual_rainfall < ScoredCrop.min_rainfall

\* C9: for 0.5 x min_rainfall <= rainfall < min_rainfall the score is
\* 0.4 + 0.4 x rainfall / min_rainfall, that is 5 x min x score = 2 x min +
\* 2 x rainfall; the score 0.3 is returned only below 0.5 x min_rainfall.
C9_ShortfallScore ==
    RainfallScored =>
        /\ BelowMinimum =>
              RatMul(RatInt(5 * ScoredCrop.min_rainfall), rainfall_score)
                  = RatInt(2 * ScoredCrop.min_rainfall
                           + 2 * climate_data.annual_rainfall)
        /\ rainfall_score = Rat(3, 10) =>
              2 * climate_data.annual_rainfall < ScoredCrop.min_rainfall

\* Rice (900 to 2500 mm) with 800 mm scores 34/45, about 0.756
C9_Witness ==
    /\ RainfallScored
    /\ crop_name = "Rice"
    /\ climate_data.annual_rainfall = 800
    /\ BelowMinimum
    /\ rainfall_score = Rat(34, 45)

(***************************************************************************)
(* Properties of recommend_crops                                           *)
(***************************************************************************)
Recommended == last_call = "recommend_crops"
Scored == DOMAIN crop_scores
Forty == RatInt(40)
IsExperimental(rec) == Experimental \in Values(rec.reasons)

\* C1: the returned list has at most 5 entries, in order of non-increasing
\* confidence.
C1_AtMostFiveDescending ==
    Recommended =>
        /\ Len(recommendations) <= 5
        /\ \A i \in 1..Len(recommendations) : \A j \in i..Len(recommendations) :
              RatLeq(recommendations[j].confidence, recommendations[i].confidence)

\* more than five crops reach 40, five are returned, not all of one confidence
C1_Witness ==
    /\ Recommended
    /\ Cardinality({c \in Scored : RatLeq(Forty, crop_scores[c])}) > 5
    /\ Len(recommendations) = 5
    /\ RatLess(recommendations[5].confidence, recommendations[1].confidence)

AllBelowForty == \A c \in Scored : RatLess(crop_scores[c], Forty)

\* C2: when every crop that passes the season filter scores below 40, exactly
\* one recommendation is returned, a highest-scoring crop, annotated as
\* experimental; when some crop scores 40 or more, every recommendation has
\* confidence of at least 40 and none is annotated as experimental.
C2_ThresholdOrExperimental ==
    Recommended =>
        IF AllBelowForty
        THEN /\ Len(recommendations) = 1
             /\ recommendations[1].crop \in Scored
             /\ recommendations[1].confidence = crop_scores[recommendations[1].crop]
             /\ \A c \in Scored :
                   RatLeq(crop_scores[c], recommendations[1].confidence)
             /\ IsExperimental(recommendations[1])
        ELSE \A i \in 1..Len(recommendations) :
                /\ RatLeq(Forty, recommendations[i].confidence)
                /\ ~IsExperimental(recommendations[i])

\* several crops are scored, all below 40, not all alike
C2_Witness ==
    /\ Recommended
    /\ AllBelowForty
    /\ \E c \in Scored : RatLess(crop_scores[c], recommendations[1].confidence)
    /\ IsExperimental(recommendations[1])

Perennials == {c \in CropNames : crop_data[c].growing_season = StrPerennial}

\* C3: every returned crop has a growing_season that includes the current
\* season or is 'Perennial'; every Perennial crop is scored whatever the
\* season.
C3_InSeasonOrPerennial ==
    Recommended =>
        /\ \A i \in 1..Len(recommendations) :
              /\ recommendations[i].crop \in CropNames
              /\ \/ StrIn(current_season,
                          crop_data[recommendations[i].crop].growing_season)
                 \/ recommendations[i].crop \in Perennials
        /\ Perennials \subseteq Scored

\* in winter a Perennial crop is returned and the out-of-season crops are not
\* scored
C3_Witness ==
    /\ Recommended
    /\ current_season = StrWinter
    /\ \E i \in 1..Len(recommendations) : recommendations[i].crop \in Perennials
    /\ "Corn" \notin Scored

Between(lo, x, hi) == RatLeq(lo, x) /\ RatLeq(x, hi)

ConfidenceIsWeightedSum(c) ==
    crop_scores[c] =
        RatAdd(RatMul(RatInt(60), sub_scores[c].temp_score),
               RatMul(RatInt(40), sub_scores[c].rainfall_score))

\* the claim as first stated: the penalised sub-scores keep the ranges of the
\* scoring functions
C6_PenalisedScoresKeepRange ==
    Recommended =>
        \A c \in Scored :
            /\ Between(Rat(1, 10), sub_scores[c].temp_score, RatOne)
            /\ Between(Rat(3, 10), sub_scores[c].rainfall_score, RatOne)
            /\ Between(RatZero, crop_scores[c], RatInt(100))

FrostPenalised(c) == climate_data.frost_risk /\ ~crop_data[c].frost_tolerant
DroughtPenalised(c) == climate_data.drought_risk /\ ~crop_data[c].drought_tolerant

\* C6: the temperature sub-score lies in [0.1, 1.0] when no frost penalty
\* applies and in [0.08, 0.8] when it does; the rainfall sub-score lies in
\* [0.3, 1.0] when no drought penalty applies and in [0.21, 0.7] when it does;
\* the confidence is 60 x temperature + 40 x rainfall and lies within 0-100.
C6_PenalisedScoreRanges ==
    Recommended =>
        \A c \in Scored :
            /\ IF FrostPenalised(c)
               THEN Between(Rat(8, 100), sub_scores[c].temp_score, Rat(8, 10))
               ELSE Between(Rat(1, 10), sub_scores[c].temp_score, RatOne)
            /\ IF DroughtPenalised(c)
               THEN Between(Rat(21, 100), sub_scores[c].rainfall_score, Rat(7, 10))
               ELSE Between(Rat(3, 10), sub_scores[c].rainfall_score, RatOne)
            /\ ConfidenceIsWeightedSum(c)
            /\ Between(RatZero, crop_scores[c], RatInt(100))

\* both penalties take a crop's sub-scores below the functions' ranges
C6_Witness ==
    /\ Recommended
    /\ \E c \in Scored :
          /\ FrostPenalised(c)
          /\ DroughtPenalised(c)
          /\ sub_scores[c].temp_score = Rat(8, 100)
          /\ sub_scores[c].rainfall_score = Rat(21, 100)

(***************************************************************************)
(* Properties of the climate summariser                                    *)
(***************************************************************************)
Summarised == last_call = "_extract_climate_data"
Records == historical_df.rows
DryIn(i) == Cardinality({j \in (i - 14)..i : Records[j].rain_sum < 1})
DryWindowExists == \E i \in 15..Len(Records) : DryIn(i) >= 13

\* the claim as first stated: from 15 records on, drought_risk tells whether
\* some window of 15 consecutive records has at least 13 dry ones
C10_DroughtFromFifteenRecords ==
    Summarised =>
        IF Len(Records) >= 15
        THEN climate_data.drought_risk <=> DryWindowExists
        ELSE ~climate_data.drought_risk

\* C10: for more than 30 records drought_risk is true exactly when some
\* window of 15 consecutive records has at least 13 with rain_sum < 1 mm; for
\* 30 records or fewer it is false.
C10_DroughtFromThirtyOneRecords ==
    Summarised =>
        IF Len(Records) > 30
        THEN climate_data.drought_risk <=> DryWindowExists
        ELSE ~climate_data.drought_risk

\* a drought found in a window that is not dry throughout
C10_Witness ==
    /\ Summarised
    /\ Len(Records) > 30
    /\ climate_data.drought_risk
    /\ \A i \in 15..Len(Records) : DryIn(i) < 15

\* C11: on a non-empty table with a temp_min column, frost_risk is true
\* exactly when more than 5 records have temp_min < 0.
FrostRecords == {i \in 1..Len(Records) : Records[i].temp_min < 0}

C11_FrostRiskMoreThanFive ==
    (Summarised /\ Records # <<>> /\ "temp_min" \in historical_df.columns) =>
        (climate_data.frost_risk <=> Cardinality(FrostRecords) > 5)

\* six frost days after other days: the smallest count that gives the risk
C11_Witness ==
    /\ Summarised
    /\ Cardinality(FrostRecords) = 6
    /\ Len(Records) > 6
    /\ climate_data.frost_risk

\* C12: on an empty table the summariser returns avg_temp 20, min_temp 5,
\* max_temp 35, annual_rainfall 800, no drought risk, no frost risk, and
\* raises nothing.
C12_EmptyGivesDefaults ==
    (Summarised /\ Records = <<>>) =>
        /\ climate_data.avg_temp = <<20, 1>>
        /\ climate_data.min_temp = 5
        /\ climate_data.max_temp = 35
        /\ climate_data.annual_rainfall = 800
        /\ ~climate_data.drought_risk
        /\ ~climate_data.frost_risk
        /\ DOMAIN climate_data =
              {"avg_temp", "min_temp", "max_temp", "annual_rainfall",
               "drought_risk", "frost_risk"}
        /\ ~raised

C12_Witness ==
    /\ Summarised
    /\ Records = <<>>
    /\ calls = 1

\* C13: a call leaves the historical table as it was given: the same columns
\* and the same values.
C13_TableUnchanged == [][historical_df' = historical_df]_vars

\* C14: the second of two calls in a row on the same table returns the
\* indicators the first one returned.
C14_SecondCallSameIndicators ==
    [][(Summarised /\ Summarised' /\ calls' = calls + 1)
          => climate_data' = climate_data]_vars

\* a second call on a table the first call has added its columns to
C14_Witness ==
    /\ Summarised
    /\ calls = 2
    /\ "dry_spell" \in historical_df.columns
    /\ climate_data.drought_risk
    /\ climate_data.frost_risk

(***************************************************************************)
(* Properties of the data processor                                        *)
(***************************************************************************)
Processed == last_call = "process_historical_data"
GivenDates == {ToDatetime(historical_data[i].date) : i \in 1..Len(historical_data)}
FirstOf(d) ==
    ProcessedRecord(historical_data[
        CHOOSE i \in 1..Len(historical_data) :
            /\ ToDatetime(historical_data[i].date) = d
            /\ \A j \in 1..(i - 1) : ToDatetime(historical_data[j].date) # d])

\* C15: the processed table has exactly one record per distinct date of the
\* input, that record is the first of the date in the input, and the dates are
\* strictly ascending.
C15_OnePerDateAscending ==
    Processed =>
        /\ Len(Records) = Cardinality(GivenDates)
        /\ \A d \in GivenDates : \E i \in 1..Len(Records) : Records[i] = FirstOf(d)
        /\ \A i \in 1..(Len(Records) - 1) : Records[i].date < Records[i + 1].date

(***************************************************************************)
(* Properties of the trend estimator                                       *)
(***************************************************************************)
Trended == last_call = "_calculate_trend"
NotMissing ==
    IF column \in historical_df.columns
    THEN {i \in 1..Len(Records) : Records[i][column] # <<>>}
    ELSE {}

\* C16: _calculate_trend returns 0 when the column is absent or has fewer than
\* 10 values that are not missing.
C16_ShortSeriesGivesZero ==
    (Trended /\ (column \notin historical_df.columns \/ Cardinality(NotMissing) < 10))
        => trend_per_month = <<0, 1>>

\* nine rising values beside two missing ones, and no trend returned
C16_Witness ==
    /\ Trended
    /\ Cardinality(NotMissing) = 9
    /\ Len(Records) = 11
    /\ \E i \in NotMissing, j \in NotMissing : Records[i][column] # Records[j][column]
    /\ trend_per_month = <<0, 1>>

(***************************************************************************)
(* Properties of the trend analysis                                        *)
(***************************************************************************)
TrendsAnalysed == last_call = "_analyze_trends"
Smoothed(i) == SumSeq([j \in 1..30 |-> Records[i - 30 + j].temp_avg[1]])
Valid == IF Len(Records) < 30 THEN {} ELSE 30..Len(Records)
FirstValid == {i \in Valid : i < 60}
LastValid == {i \in Valid : i > Len(Records) - 30}
SmoothedMean(S) ==
    Rat(SumSeq([k \in 1..Cardinality(S) |-> Smoothed(MinOf(S) + k - 1)]),
        30 * Cardinality(S))
RecentPeriodSaid ==
    \E i \in 1..Len(trends) : trends[i].text = "The recent period has been"

\* C19: with at least 30 daily records, the "recent period has been
\* warmer/cooler" observation is given exactly when the mean of the first 30
\* valid values of the 30-day rolling mean of temp_avg and the mean of its last
\* 30 valid values differ by more than 1 degree.
C19_FirstAndLastThirtyValid ==
    (TrendsAnalysed /\ Len(Records) >= 30 /\ "temp_avg" \in historical_df.columns)
        => (RecentPeriodSaid <=>
               RatLess(RatOne, RatAbs(RatSub(SmoothedMean(LastValid),
                                             SmoothedMean(FirstValid)))))

(***************************************************************************)
(* Properties of the forecast comparator                                   *)
(***************************************************************************)
Predicted == last_call = "_predict_upcoming_conditions"
Points == forecast_df.rows
ForecastRain == SumSeq([i \in 1..Len(Points) |-> Points[i].rain])
DaysCovered == Cardinality({Points[i].time[1] : i \in 1..Len(Points)})
HistoricalRain == SumSeq([i \in 1..Len(Records) |-> Records[i].rain_sum[1]])
Says(text) ==
    \E i \in 1..Len(predictions.upcoming_patterns) :
        predictions.upcoming_patterns[i].text = text

\* C20: with a forecast and a history, "higher than average rainfall" is
\* reported exactly when the forecast rain per day the forecast covers exceeds
\* 2 times the historical mean daily rain_sum, "drier than average" exactly
\* when it is below 0.5 times that mean, and neither otherwise.
C20_RainfallPerForecastDay ==
    (Predicted /\ Points # <<>> /\ Records # <<>>) =>
        LET forecast_mean == Rat(ForecastRain, DaysCovered)
            historical_mean == Rat(HistoricalRain, Len(Records))
        IN  /\ Says("Higher than average rainfall expected in the upcoming period.")
                <=> RatLess(RatMul(RatInt(2), historical_mean), forecast_mean)
            /\ Says("Drier than average conditions expected in the upcoming period.")
                <=> RatLess(forecast_mean, RatMul(Rat(1, 2), historical_mean))

(***************************************************************************)
(* Properties of the entry points                                          *)
(***************************************************************************)
Recommends == last_call = "recommend_crops"
Insights == last_call = "get_crop_insights"
Analysed == last_call = "analyze_patterns"
Failing == ForecastRaises(forecast_df)
SummaryIs(text) ==
    /\ Len(results.summary) = 1
    /\ results.summary[1].text = text
    /\ results.anomalies = <<>>
    /\ results.trends = <<>>

C18_InsightScoreIsConfidence ==
    (Insights /\ ~Failing) =>
        \A c \in DOMAIN insights :
            insights[c].overall_score =
                RatMul(Confidence(SubScores(climate_data, crop_data[c])),
                       Rat(1, 100))

(***************************************************************************)
(* Properties of the pattern detection                                     *)
(***************************************************************************)
Clustered == last_call = "_identify_patterns"

Days == Len(historical_df.rows)

\* k = min(5, n/10) when n > 10 and k = 2 otherwise
MostReported ==
    IF Days > 10 THEN (IF Days \div 10 < 5 THEN Days \div 10 ELSE 5) ELSE 2

\* the reported clusters are non-empty, at most k, and between them hold
\* every day once
PartitionReported ==
    LET clusters == patterns.clusters
    IN  /\ \A c \in 1..Len(clusters) : clusters[c].size > 0
        /\ Len(clusters) <= MostReported
        /\ SumSeq([c \in 1..Len(clusters) |-> clusters[c].size]) = Days
        /\ RatSum([c \in 1..Len(clusters) |-> clusters[c].percentage])
              = RatInt(100)

\* C21 as stated: for every number n >= 1 of daily records the reported
\* clusters are non-empty, at most k = min(5, n/10) (n > 10) or 2 of them,
\* their sizes sum to n and their percentages sum to 100.
C21_PartitionOfEveryTable == Clustered => PartitionReported

\* C21, amended: that holds for every number n >= 2 of daily records; for a
\* single daily record no cluster is reported.
C21_PartitionFromTwoDays ==
    Clustered =>
        IF Days >= 2 THEN PartitionReported ELSE patterns.clusters = <<>>

\* a table of more than ten days for which three clusters are reported
C21_Witness ==
    /\ Clustered
    /\ Days > 10
    /\ Len(patterns.clusters) = 3

\* the mean temperature of the window's last 3 entries less that of its
\* first 3 entries (of all its entries when it has fewer than 3)
Swing ==
    LET n == Len(Points)
        m == IF n < 3 THEN n ELSE 3
    IN  RatSub(Rat(SumSeq([i \in 1..m |-> Points[n - m + i].temp]), m),
               Rat(SumSeq([i \in 1..m |-> Points[i].temp]), m))

SaysTemperatures(direction) ==
    \E i \in 1..Len(predictions.upcoming_patterns) :
        /\ predictions.upcoming_patterns[i].text
              = "Temperatures are expected to be"
        /\ predictions.upcoming_patterns[i].direction = direction

\* C22 as stated: for every forecast window the "temperatures are expected to
\* be increasing/decreasing significantly" sentence is reported exactly when
\* the mean temperature of the last 3 entries differs from that of the first
\* 3 entries by more than 5 degrees, increasing for a rise and decreasing for
\* a fall.
C22_SwingOfEveryWindow ==
    (Predicted /\ Points # <<>>) =>
        /\ SaysTemperatures("increasing") <=> RatLess(RatInt(5), Swing)
        /\ SaysTemperatures("decreasing") <=> RatLess(Swing, RatInt(0 - 5))

\* C22, amended: the sentence is reported exactly when the window has more
\* than 5 entries and the two means differ by more than 5 degrees.
C22_SwingOfLongWindow ==
    (Predicted /\ Points # <<>>) =>
        /\ SaysTemperatures("increasing")
              <=> (Len(Points) > 5 /\ RatLess(RatInt(5), Swing))
        /\ SaysTemperatures("decreasing")
              <=> (Len(Points) > 5 /\ RatLess(Swing, RatInt(0 - 5)))

\* a window of more than 5 entries that cools by more than 5 degrees
C22_Witness ==
    /\ Predicted
    /\ Len(Points) > 5
    /\ RatLess(Swing, RatInt(0 - 5))
    /\ SaysTemperatures("decreasing")

\* forecast mean temperature minus historical mean temp_avg
TemperatureDifference ==
    RatSub(Rat(SumSeq([i \in 1..Len(Points) |-> Points[i].temp]), Len(Points)),
           Rat(SumSeq([i \in 1..Len(Records) |-> Records[i].temp_avg[1]]),
               Len(Records)))

Compared(label) ==
    /\ predictions.forecast_analysis.text
          = "The upcoming period is forecasted to be"
    /\ predictions.forecast_analysis.direction = label

\* C24: the comparison is exactly one of five labels chosen from diff =
\* forecast mean temperature minus historical mean temp_avg: significantly
\* warmer for diff > 3, warmer for 1 < diff <= 3, significantly cooler for
\* diff < -3, cooler for -3 <= diff < -1 and similar for -1 <= diff <= 1.
C24_FiveLabels ==
    (Predicted /\ Points # <<>> /\ Records # <<>>) =>
        LET diff == TemperatureDifference
            over(x) == RatLess(RatInt(x), diff)
            under(x) == RatLess(diff, RatInt(x))
        IN  /\ Compared("significantly warmer than") <=> over(3)
            /\ Compared("warmer than") <=> (over(1) /\ ~over(3))
            /\ Compared("significantly cooler than") <=> under(0 - 3)
            /\ Compared("cooler than") <=> (~under(0 - 3) /\ under(0 - 1))
            /\ Compared("similar to") <=> (~under(0 - 1) /\ ~over(1))

\* a forecast exactly 3 degrees below the historical mean is labelled cooler
C24_Witness ==
    /\ Predicted
    /\ Points # <<>>
    /\ Records # <<>>
    /\ TemperatureDifference = RatInt(0 - 3)
    /\ Compared("cooler than")

InsufficientSaid ==
    \E i \in 1..Len(trends) :
        trends[i] = Message("Insufficient historical data for detailed trend analysis.")

\* a trend value is stored only together with its sentence (lines 341-357)
TrendValueGiven ==
    \E i \in 1..Len(trends) :
        trends[i].text \in {"Temperature has been", "Precipitation has been",
                            "Humidity has been"}

\* C25: with fewer than 30 daily records the trend analysis returns exactly
\* one description, the insufficient-data message, and no trend value for
\* temperature, precipitation or humidity; with 30 or more records it never
\* gives the insufficient-data message.
C25_InsufficientBelowThirty ==
    TrendsAnalysed =>
        IF Len(Records) < 30
        THEN /\ Len(trends) = 1
             /\ InsufficientSaid
             /\ ~TrendValueGiven
        ELSE ~InsufficientSaid

\* 29 daily records give the insufficient-data message alone
C25_Witness ==
    /\ TrendsAnalysed
    /\ Len(Records) = 29
    /\ Len(trends) = 1
    /\ InsufficientSaid

(***************************************************************************)
(* Properties of the crop insights                                         *)
(***************************************************************************)
\* the crops whose insight was worked out, not replaced by the fallback
Advised ==
    {c \in DOMAIN insights :
        insights[c].suitability # "Unable to determine accurately"}

NoChallenge == "No major climate challenges identified for this crop"

\* the recommendations that belong to a challenge
AdviceFor(challenge) ==
    CASE challenge = "Minimum temperatures may be too cold" ->
            <<"Consider using row covers or high tunnels for cold protection",
              "Plant after risk of frost has passed">>
      [] challenge = "Maximum temperatures may cause heat stress" ->
            <<"Use shade cloth during peak heat periods",
              "Plant early to avoid peak summer heat for maturation">>
      [] challenge = "Insufficient natural rainfall" ->
            <<"Implement efficient irrigation systems",
              "Use mulch to conserve soil moisture">>
      [] challenge = "Excessive rainfall may increase disease pressure" ->
            <<"Ensure good drainage to prevent waterlogging",
              "Consider raised beds to improve drainage",
              "Implement disease monitoring and prevention strategies">>
      [] challenge = "Drought periods may affect crop development as this variety has low drought tolerance" ->
            <<"Develop a drought contingency irrigation plan",
              "Consider drought-resistant varieties or alternative crops">>
      [] challenge = "Frost risk may damage crops as this variety has low frost tolerance" ->
            <<"Have frost protection measures ready (covers, sprinklers)",
              "Monitor weather forecasts closely during frost-risk periods">>
      [] OTHER ->
            <<"Follow standard agricultural practices for this crop",
              "Monitor for pests and diseases common to this crop">>

RECURSIVE AdviceOf(_)
AdviceOf(challenges) ==
    IF challenges = <<>> THEN <<>>
    ELSE AdviceFor(Head(challenges).text) \o AdviceOf(Tail(challenges))

DefaultChallenge(c) ==
    \E i \in 1..Len(insights[c].challenges) :
        insights[c].challenges[i].text = NoChallenge

\* C23 as stated: the recommendations correspond one-to-one with the
\* challenges, each challenge found contributing exactly one recommendation,
\* in the same order; with no challenge found the challenges are the single
\* default entry and the recommendations the default.
C23_OneRecommendationPerChallenge ==
    Insights =>
        \A c \in Advised :
            LET challenges == insights[c].challenges
                advice == insights[c].recommendations
            IN  IF DefaultChallenge(c)
                THEN /\ Len(challenges) = 1
                     /\ advice = AdviceFor(NoChallenge)
                ELSE /\ Len(advice) = Len(challenges)
                     /\ \A i \in 1..Len(challenges) :
                           \E k \in 1..Len(AdviceFor(challenges[i].text)) :
                               advice[i] = AdviceFor(challenges[i].text)[k]

\* C23, amended: each challenge found contributes its own recommendations,
\* two of them (three for excess rain), in the order of the challenges; with
\* no challenge found the challenges are the single default entry and the
\* recommendations the two default entries.
C23_AdvicePerChallenge ==
    Insights =>
        \A c \in Advised :
            LET challenges == insights[c].challenges
                advice == insights[c].recommendations
            IN  /\ DefaultChallenge(c) => Len(challenges) = 1
                /\ advice = AdviceOf(challenges)
                /\ Len(AdviceFor(NoChallenge)) = 2
                /\ \A i \in 1..Len(challenges) :
                      Len(AdviceFor(challenges[i].text))
                         = IF challenges[i].text
                                 = "Excessive rainfall may increase disease pressure"
                           THEN 3 ELSE 2

\* a crop with the cold, excess rain and frost risk challenges, and seven
\* recommendations
C23_Witness ==
    /\ Insights
    /\ \E c \in Advised :
          /\ Len(insights[c].challenges) = 3
          /\ insights[c].challenges[2].text
                = "Excessive rainfall may increase disease pressure"
          /\ Len(insights[c].recommendations) = 7

(***************************************************************************)
(* Properties of the planning calendar                                     *)
(***************************************************************************)
Seasoned == last_call = "get_seasonal_recommendations"

GivenSeason ==
    CASE current_month \in {12, 1, 2} -> "Winter"
      [] current_month \in {3, 4, 5} -> "Spring"
      [] current_month \in {6, 7, 8} -> "Summer"
      [] OTHER -> "Fall"

SeasonMonths ==
    CASE GivenSeason = "Winter" -> {"December", "January", "February"}
      [] GivenSeason = "Spring" -> {"March", "April", "May"}
      [] GivenSeason = "Summer" -> {"June", "July", "August"}
      [] OTHER -> {"September", "October", "November"}

\* the days of the historical table whose column is below, or above, a value
ColdDays ==
    IF "temp_min" \in historical_df.columns
    THEN {i \in 1..Len(Records) : Records[i].temp_min < 0}
    ELSE {}

WarmDays ==
    IF "temp_max" \in historical_df.columns
    THEN {i \in 1..Len(Records) : Records[i].temp_max > 32}
    ELSE {}

FrostCaution ==
    "Be prepared for potential late frosts based on historical patterns"

HeatCaution ==
    "Implement heat stress management strategies during historically high-temperature periods"

Cautioned(month, caution) ==
    LET tasks == seasonal.monthly_tasks[month]
    IN  /\ Len(tasks) = 5
        /\ tasks[5] = caution
        /\ SubSeq(tasks, 1, 4) = MonthlyTasks(GivenSeason)[month]

\* C27: exactly three months of task lists are returned for the given season;
\* the late-frost caution is appended to the April list exactly when the
\* season is Spring and some historical day has temp_min < 0, the heat-stress
\* caution to the July list exactly when the season is Summer and more than 10
\* historical days have temp_max > 32, and every other list is the fixed list
\* of four tasks.
C27_ThreeMonthsOfTasks ==
    Seasoned =>
        /\ DOMAIN seasonal.monthly_tasks = SeasonMonths
        /\ Cardinality(DOMAIN seasonal.monthly_tasks) = 3
        /\ \A month \in DOMAIN seasonal.monthly_tasks :
              IF month = "April" /\ ColdDays # {}
              THEN Cautioned(month, FrostCaution)
              ELSE IF month = "July" /\ Cardinality(WarmDays) > 10
              THEN Cautioned(month, HeatCaution)
              ELSE /\ Len(seasonal.monthly_tasks[month]) = 4
                   /\ seasonal.monthly_tasks[month]
                         = MonthlyTasks(GivenSeason)[month]

\* a Summer calendar for a table with eleven hot days, with the caution
C27_Witness ==
    /\ Seasoned
    /\ GivenSeason = "Summer"
    /\ Cardinality(WarmDays) = 11
    /\ Cautioned("July", HeatCaution)

(***************************************************************************)
(* Properties of the anomaly detection.  Days are counted from 1.          *)
(***************************************************************************)
Detected == last_call = "_detect_anomalies"

FlaggedDays == {anomalies.indices[k] : k \in 1..Len(anomalies.indices)}

\* the description made for a flagged day
DescriptionOfDay(day) ==
    Description("Weather anomaly detected with", "",
                UnusualFeatures(historical_df, day))

GenericDescription ==
    Description("Weather anomaly detected with", "",
                <<Message("unusual combination of weather conditions")>>)

\* the day's value lies beyond the 95th or the 5th percentile of its column
Crosses(day) ==
    LET value(name) == RatInt(Records[day][name][1])
        high(name) == Quantile(ColumnCells(historical_df, name), 95, 100)[1]
        low(name) == Quantile(ColumnCells(historical_df, name), 5, 100)[1]
    IN  \/ RatLess(high("temp_max"), value("temp_max"))
        \/ RatLess(value("temp_min"), low("temp_min"))
        \/ RatLess(high("rain_sum"), value("rain_sum"))
        \/ RatLess(high("wind_speed"), value("wind_speed"))
        \/ RatLess(high("humidity_avg"), value("humidity_avg"))
        \/ RatLess(value("humidity_avg"), low("humidity_avg"))

\* the first flagged day that a description returned was made for, 0 if none
FirstFound(description) ==
    LET days == {day \in FlaggedDays : DescriptionOfDay(day) = description}
    IN  IF days = {} THEN 0 ELSE MinOf(days)

DefaultsOf(rows, user_id) ==
    {i \in 1..Len(rows) : rows[i].user_id = user_id /\ rows[i].is_default}

\* C30: after every save_location call of a sequence of calls each user has
\* at most one saved location with is_default true; after a call with
\* is_default=True the location just saved is the only default of its user,
\* the one get_default_location returns; the locations of other users are as
\* they were before the call.
C30_OneDefaultPerUser ==
    [][saved_locations' # saved_locations =>
          LET before == saved_locations
              after == saved_locations'
              saved == location_data'.id
          IN  /\ Len(after) = Len(before) + 1
              /\ saved = Len(after)
              /\ \A user_id \in Users :
                    Cardinality(DefaultsOf(after, user_id)) <= 1
              /\ location_data'.is_default =>
                    /\ DefaultsOf(after, after[saved].user_id) = {saved}
                    /\ GetDefaultLocation(after, after[saved].user_id)
                          = location_data'
              /\ \A i \in 1..Len(before) :
                    before[i].user_id # after[saved].user_id
                       => after[i] = before[i]]_vars

\* a user with a default saves a second default beside another user's
C30_Witness ==
    /\ last_call = "save_location"
    /\ Len(saved_locations) = 3
    /\ saved_locations[1].user_id = 1
    /\ saved_locations[2].user_id = 2
    /\ saved_locations[2].is_default
    /\ saved_locations[3].user_id = 1
    /\ ~saved_locations[1].is_default
    /\ location_data.is_default
    /\ location_data.id = 3
    /\ saved_locations[1].name = saved_locations[3].name

(***************************************************************************)
(* Properties of the sensor simulation                                     *)
(***************************************************************************)
\* the worker has found simulation_running true and is producing a reading
Producing(thread) == worker[thread] = "body"

\* the worker has been started and has not ended
Running(thread) == worker[thread] \notin {"unborn", "done"}

\* C28: under every interleaving of start_simulation and stop_simulation
\* calls with the workers, a join that times out included, at most one worker
\* loop is producing readings at any time, and start_simulation returns False
\* without starting a thread whenever a worker is still running.
C28_AtMostOneWorker ==
    /\ Cardinality({thread \in Threads : Producing(thread)}) <= 1
    /\ (last_call = "start_simulation" /\ started = TRUE)
          => \A thread \in Threads :
                Running(thread) => thread = simulation_thread

\* what the consumer holds of the call it is in
Held == IF consumer.pc = "idle" THEN <<>> ELSE consumer.readings

\* C29: while the workers put readings on the queue, get_latest_readings
\* called by one consumer returns at most max_items readings, in the order in
\* which they were put, each reading at most once over all calls, and never
\* waits for a reading.
C29_ReadingsInOrderOnce ==
    /\ Len(latest_readings) <= MaxItems
    /\ Len(consumer.readings) <= consumer.max_items
    /\ consumer.pc = "idle" /\ latest_readings # <<>>
          => /\ latest_readings = consumer.readings
             /\ Len(latest_readings) <= consumer.max_items
    /\ delivered \o Held \o data_queue = enqueued
    /\ \A i \in 1..Len(enqueued) : \A j \in 1..Len(enqueued) :
          i # j => enqueued[i] # enqueued[j]
    /\ consumer.pc = "get" => data_queue # <<>>

\* a second call returns the third reading after a first call returned two,
\* the third having been put on the queue during the first call
C29_Witness ==
    /\ consumer.pc = "idle"
    /\ Len(enqueued) = 3
    /\ Len(delivered) = 3
    /\ Len(latest_readings) = 1
    /\ delivered = enqueued

====
